---- MODULE Spec2Model ----
(***************************************************************************)
(* NadiaVM (uvn_fira.core): the tokenizer and parser of lang.py, the       *)
(* virtual machine and the writer of vm.py.                                *)
(*                                                                         *)
(* Text is a sequence of one-character strings.  A Python value (an        *)
(* instruction parameter, a stack entry, a dictionary key) is a record     *)
(* [t, n, d, s]: t is the Python type ("int", "float", "str", "kw" for a   *)
(* CSNadiaLanguageKeyword member, "cmd" for a CSNadiaLanguageCommand       *)
(* member, "none"), n/d the number (d = 1 for an int), s the characters.   *)
(* Two values are equal here exactly when Python's == holds for them in    *)
(* the places the code compares them.                                      *)
(***************************************************************************)
EXTENDS Integers, Sequences, FiniteSets, TLC

(***************************************************************************)
(* Characters and words                                                    *)
(***************************************************************************)
NL == "\n"
SP == " "
QUOTE == "\""

digits == {"0", "1", "2", "3", "4", "5", "6", "7", "8", "9"}

ascii_letters ==
  {"a", "b", "c", "d", "e", "f", "g", "h", "i", "j", "k", "l", "m",
   "n", "o", "p", "q", "r", "s", "t", "u", "v", "w", "x", "y", "z",
   "A", "B", "C", "D", "E", "F", "G", "H", "I", "J", "K", "L", "M",
   "N", "O", "P", "Q", "R", "S", "T", "U", "V", "W", "X", "Y", "Z"}

W_set == <<"s", "e", "t">>
W_bind == <<"b", "i", "n", "d">>
W_cast == <<"c", "a", "s", "t">>
W_collect == <<"c", "o", "l", "l", "e", "c", "t">>
W_exit == <<"e", "x", "i", "t">>
W_pop == <<"p", "o", "p">>
W_push == <<"p", "u", "s", "h">>
W_alloc == <<"a", "l", "l", "o", "c">>
W_add == <<"a", "d", "d">>
W_sub == <<"s", "u", "b">>
W_mult == <<"m", "u", "l", "t">>
W_div == <<"d", "i", "v">>
W_neg == <<"n", "e", "g">>
W_move == <<"m", "o", "v", "e">>
W_constant == <<"c", "o", "n", "s", "t", "a", "n", "t">>
W_origin == <<"o", "r", "i", "g", "i", "n">>
W_player == <<"p", "l", "a", "y", "e", "r">>

W_north == <<"n", "o", "r", "t", "h">>
W_south == <<"s", "o", "u", "t", "h">>
W_east == <<"e", "a", "s", "t">>
W_west == <<"w", "e", "s", "t">>
W_var == <<"v", "a", "r">>
W_x == <<"x">>
W_n == <<"n">>
W_notacommand == <<"n", "o", "t", "a", "c", "o", "m", "m", "a", "n", "d">>
W_is_interactive ==
  <<"i", "s", "_", "i", "n", "t", "e", "r", "a", "c", "t", "i", "v", "e">>
W__player_pos ==
  <<"_", "p", "l", "a", "y", "e", "r", "_", "p", "o", "s">>
W__binds == <<"_", "b", "i", "n", "d", "s">>
W__stack == <<"_", "s", "t", "a", "c", "k">>
W_0 == <<"0">>
W_3 == <<"3">>
W_5 == <<"5">>
W_7 == <<"7">>
W_10 == <<"1", "0">>
W_qx == <<QUOTE, "x", QUOTE>>
W_y == <<"y">>
W_go == <<"g", "o">>
W_1 == <<"1">>
W_2 == <<"2">>
W_comment == <<";", "c">>
W_5abc == <<"5", "a", "b", "c">>

(* CSNadiaLanguageCommand: the values of the closed command set *)
CSNadiaLanguageCommand ==
  {W_set, W_bind, W_cast, W_collect, W_exit, W_pop, W_push, W_alloc,
   W_add, W_sub, W_mult, W_div, W_neg, W_move}

(* CSNadiaLanguageKeyword: the commands and constant, origin, player *)
CSNadiaLanguageKeyword ==
  CSNadiaLanguageCommand \cup {W_constant, W_origin, W_player}

(***************************************************************************)
(* Values                                                                  *)
(***************************************************************************)
IntV(i) == [t |-> "int", n |-> i, d |-> 1, s |-> <<>>]
FloatV(num, den) == [t |-> "float", n |-> num, d |-> den, s |-> <<>>]
StrV(chars) == [t |-> "str", n |-> 0, d |-> 1, s |-> chars]
KwV(chars) == [t |-> "kw", n |-> 0, d |-> 1, s |-> chars]
CmdV(chars) == [t |-> "cmd", n |-> 0, d |-> 1, s |-> chars]
NoneV == [t |-> "none", n |-> 0, d |-> 1, s |-> <<>>]

DigitVal(ch) ==
  CASE ch = "0" -> 0 [] ch = "1" -> 1 [] ch = "2" -> 2 [] ch = "3" -> 3
    [] ch = "4" -> 4 [] ch = "5" -> 5 [] ch = "6" -> 6 [] ch = "7" -> 7
    [] ch = "8" -> 8 [] ch = "9" -> 9

(* int() of a run of digits *)
RECURSIVE DigitsToInt(_, _)
DigitsToInt(chars, acc) ==
  IF chars = <<>> THEN acc
  ELSE DigitsToInt(Tail(chars), 10 * acc + DigitVal(Head(chars)))

(***************************************************************************)
(* Tokens and the tokenizer (lang.py)                                      *)
(***************************************************************************)
Token(type, contents) == [type |-> type, contents |-> contents]

(* CSNadiaLanguageParser._is_keyword / reserved *)
IsKeyword(key) == key \in CSNadiaLanguageKeyword

(* the token type chosen from the first character, state START *)
StartType(ch) ==
  IF ch = ";" THEN "comment"
  ELSE IF ch = QUOTE THEN "string"
  ELSE IF ch \in digits THEN "number"
  ELSE IF ch \in ascii_letters THEN "identifier"
  ELSE "any"

(* the IN_PROGRESS branches that end the token *)
Finishes(token_type, ch) ==
  \/ token_type = "comment" /\ ch = NL
  \/ token_type = "number" /\ ch \notin digits
  \/ token_type = "string" /\ ch = QUOTE
  \/ token_type = "identifier" /\ ch \notin (ascii_letters \cup {"_", "-"})
  \/ token_type = "any" /\ ch = NL

(* The while loop of _next_token.  The result holds the stream left, and   *)
(* emitted = FALSE when the stream ran out before FINISH: the function     *)
(* returns without appending the token.                                    *)
RECURSIVE NextTokenLoop(_, _, _, _)
NextTokenLoop(stream, state, token_type, current_token) ==
  IF state = "finish"
    THEN [stream |-> stream, emitted |-> TRUE,
          token |-> Token(IF IsKeyword(current_token) THEN "keyword"
                          ELSE token_type, current_token)]
  ELSE IF stream = <<>>
    THEN [stream |-> stream, emitted |-> FALSE,
          token |-> Token(token_type, current_token)]
  ELSE LET current_char == Head(stream) IN
    IF state = "start"
      THEN NextTokenLoop(Tail(stream), "progress", StartType(current_char),
                         Append(current_token, current_char))
    ELSE IF Finishes(token_type, current_char)
      THEN NextTokenLoop(Tail(stream), "finish", token_type,
                         IF token_type = "string"
                           THEN Append(current_token, current_char)
                           ELSE current_token)
    ELSE NextTokenLoop(Tail(stream), "progress", token_type,
                       Append(current_token, current_char))

NextToken(stream) == NextTokenLoop(stream, "start", "none", <<>>)

(* CSNadiaLanguageParser.tokenize: the tokens of a whole stream *)
RECURSIVE TokenizeFrom(_, _)
TokenizeFrom(stream, tokens) ==
  IF stream = <<>> THEN tokens
  ELSE LET r == NextToken(stream) IN
    TokenizeFrom(r.stream,
                 IF r.emitted THEN Append(tokens, r.token) ELSE tokens)

Tokenize(stream) == TokenizeFrom(stream, <<>>)

(* CSNadiaLanguageToken.castable *)
Castable(token) ==
  IF token.type = "number" THEN IntV(DigitsToInt(token.contents, 0))
  ELSE IF token.type = "keyword" THEN KwV(token.contents)
  ELSE IF token.type = "none" THEN NoneV
  ELSE StrV(token.contents)

(***************************************************************************)
(* The parser (lang.py)                                                    *)
(***************************************************************************)
Instruction(command, parameters) ==
  [command |-> command, parameters |-> parameters]

NoError == "ok"
ParseError == "CSNadiaLangParseError"
ValueError == "ValueError"

(* The bindings are a Python dict: a function from key values to command   *)
(* words.  A token's contents is looked up as a str key.                   *)
InBinds(binds, contents) == StrV(contents) \in DOMAIN binds

(* an _is_command that takes every word of the Keyword set for a command *)
IsCommandLoose(binds, keyword) ==
  IF InBinds(binds, keyword) THEN TRUE ELSE IsKeyword(keyword)

(* CSNadiaLanguageParser._is_command *)
IsCommand(binds, keyword) ==
  IF InBinds(binds, keyword) THEN TRUE
  ELSE IF ~IsKeyword(keyword) THEN FALSE
  ELSE IF keyword \in {W_constant, W_origin, W_player} THEN FALSE
  ELSE TRUE

(* CSNadiaLanguageCommand(value): a member, or the str of a member; every  *)
(* other value raises ValueError                                           *)
IsCommandValue(value) ==
  value.t \in {"cmd", "str"} /\ value.s \in CSNadiaLanguageCommand

(* CSNadiaLanguageParser.__init__, the bindings keyword given a dict:      *)
(* every seed value goes through CSNadiaLanguageCommand(..)                *)
ParserInit(bindings) ==
  IF \E b \in DOMAIN bindings : ~IsCommandValue(bindings[b])
    THEN [error |-> ValueError, binds |-> << >>]
    ELSE [error |-> NoError,
          binds |-> [b \in DOMAIN bindings |-> bindings[b].s]]

(* The parser's token cursor: `current` holds at most one token (Python    *)
(* None is the empty sequence), `tokens` the tokens not yet taken.         *)
(* CSNadiaLanguageParser._advance *)
Advance(tokens) ==
  IF tokens # <<>>
    THEN [current |-> <<Head(tokens)>>, tokens |-> Tail(tokens)]
    ELSE [current |-> <<>>, tokens |-> tokens]

(* the parameter loop of _parse_command *)
RECURSIVE ParameterLoop(_, _, _, _, _, _)
ParameterLoop(binds, command, current, tokens, did_get_binding, parameters) ==
  IF current = <<>>
       \/ ~(~did_get_binding \/ ~IsCommand(binds, current[1].contents))
    THEN [error |-> NoError, parameters |-> parameters,
          current |-> current, tokens |-> tokens]
  ELSE LET curr == current[1]
           adv == Advance(tokens)
       IN IF command = W_bind /\ IsCommand(binds, curr.contents)
            THEN IF curr.contents \in CSNadiaLanguageCommand
                   THEN ParameterLoop(binds, command, adv.current, adv.tokens,
                          TRUE, Append(parameters, CmdV(curr.contents)))
                   ELSE [error |-> ValueError, parameters |-> parameters,
                         current |-> current, tokens |-> tokens]
            ELSE ParameterLoop(binds, command, adv.current, adv.tokens,
                   did_get_binding, Append(parameters, Castable(curr)))

(* the return of _parse_command: the instruction and the cursor the        *)
(* parameter loop left                                                     *)
ParsedCommand(command, r) ==
  [error |-> r.error, instruction |-> Instruction(command, r.parameters),
   current |-> r.current, tokens |-> r.tokens]

(* the body of _parse_command once the command word is known *)
ParseParameters(binds, command, adv) ==
  ParsedCommand(command, ParameterLoop(binds, command, adv.current,
                                       adv.tokens, FALSE, <<>>))

(* CSNadiaLanguageParser._parse_command, entered with `current` set *)
ParseCommand(binds, current, tokens) ==
  IF current = <<>>
    THEN [error |-> ParseError, instruction |-> Instruction(W_exit, <<>>),
          current |-> current, tokens |-> tokens]
  ELSE LET curr == current[1] IN
    IF (curr.type # "keyword" /\ ~InBinds(binds, curr.contents))
         \/ (~IsCommand(binds, curr.contents) /\ ~InBinds(binds, curr.contents))
      THEN [error |-> ParseError, instruction |-> Instruction(W_exit, <<>>),
            current |-> current, tokens |-> tokens]
    ELSE ParseParameters(binds,
                         IF ~InBinds(binds, curr.contents) THEN curr.contents
                         ELSE binds[StrV(curr.contents)],
                         Advance(tokens))

(* the while loop of parse: each round advances first, so the token left   *)
(* in `current` by _parse_command is dropped                               *)
RECURSIVE ParseLoop(_, _, _)
(* parse, lines 405-412: the instruction is appended and the loop goes on; *)
(* an error raised by _parse_command ends the parse                        *)
ParseAppend(binds, r, instructions) ==
  IF r.error # NoError THEN [error |-> r.error, instructions |-> <<>>]
  ELSE ParseLoop(binds, r.tokens, Append(instructions, r.instruction))

ParseLoop(binds, tokens, instructions) ==
  IF tokens = <<>> THEN [error |-> NoError, instructions |-> instructions]
  ELSE LET adv == Advance(tokens)
           curr == adv.current[1]
       IN IF curr.type = "comment"
            THEN ParseLoop(binds, adv.tokens, instructions)
          ELSE IF IsCommand(binds, curr.contents) \/ InBinds(binds, curr.contents)
            THEN ParseAppend(binds,
                             ParseCommand(binds, adv.current, adv.tokens),
                             instructions)
          ELSE [error |-> ParseError, instructions |-> <<>>]

(* parse() of a parser whose __init__ gave `p` *)
ParseFrom(lang_input, p) ==
  IF p.error # NoError THEN [error |-> p.error, instructions |-> <<>>]
  ELSE ParseLoop(p.binds, Tokenize(lang_input), <<>>)

(* CSNadiaLanguageParser(lang_input, bindings=...).parse() *)
Parse(lang_input, bindings) == ParseFrom(lang_input, ParserInit(bindings))

(***************************************************************************)
(* Source text built from words                                            *)
(***************************************************************************)
RECURSIVE JoinWith(_, _)
(* sep.join(parts) *)
JoinWith(parts, sep) ==
  IF parts = <<>> THEN <<>>
  ELSE IF Len(parts) = 1 THEN parts[1]
  ELSE parts[1] \o sep \o JoinWith(Tail(parts), sep)

(* a line of words separated by single spaces, without its newline *)
LineText(words) == JoinWith(words, <<SP>>)

RECURSIVE ProgramText(_)
(* the text of a program file: every line followed by a newline *)
ProgramText(lines) ==
  IF lines = <<>> THEN <<>>
  ELSE LineText(Head(lines)) \o <<NL>> \o ProgramText(Tail(lines))

(***************************************************************************)
(* Python helpers used by the VM handlers                                  *)
(***************************************************************************)
IndexError == "IndexError"
KeyError == "KeyError"
TypeError == "TypeError"
ZeroDivisionError == "ZeroDivisionError"
(* the call does not return: `while cast in current.parameters` spins *)
NonTermination == "NonTermination"

Whitespace == {SP, NL, "\t", "\r"}

RECURSIVE LStrip(_)
LStrip(chars) ==
  IF chars # <<>> /\ Head(chars) \in Whitespace THEN LStrip(Tail(chars))
  ELSE chars

RECURSIVE RStrip(_)
RStrip(chars) ==
  IF chars # <<>> /\ chars[Len(chars)] \in Whitespace
    THEN RStrip(SubSeq(chars, 1, Len(chars) - 1))
    ELSE chars

(* the digits of a literal, underscores removed *)
RECURSIVE DigitsOnly(_)
DigitsOnly(chars) ==
  IF chars = <<>> THEN <<>>
  ELSE IF Head(chars) = "_" THEN DigitsOnly(Tail(chars))
  ELSE <<Head(chars)>> \o DigitsOnly(Tail(chars))

(* the digits of an int literal may be grouped by single underscores *)
ValidIntLiteral(lit) ==
  /\ lit # <<>>
  /\ \A i \in 1..Len(lit) : lit[i] \in digits \cup {"_"}
  /\ lit[1] # "_" /\ lit[Len(lit)] # "_"
  /\ \A i \in 1..(Len(lit) - 1) : ~(lit[i] = "_" /\ lit[i + 1] = "_")

IntOfLiteral(negative, lit) ==
  IF ~ValidIntLiteral(lit) THEN [error |-> ValueError, n |-> 0]
  ELSE [error |-> NoError,
        n |-> IF negative THEN 0 - DigitsToInt(DigitsOnly(lit), 0)
              ELSE DigitsToInt(DigitsOnly(lit), 0)]

(* an optional sign, then the literal *)
IntOfStripped(body) ==
  IF body # <<>> /\ body[1] \in {"+", "-"}
    THEN IntOfLiteral(body[1] = "-", Tail(body))
    ELSE IntOfLiteral(FALSE, body)

(* int(str): surrounding whitespace is ignored *)
IntOfStr(chars) == IntOfStripped(RStrip(LStrip(chars)))

(* truncation toward zero of num/den, den > 0 *)
Trunc(num, den) ==
  IF num >= 0 THEN num \div den ELSE 0 - ((0 - num) \div den)

(* int(v) for a VM value *)
PyInt(v) ==
  IF v.t = "int" THEN [error |-> NoError, n |-> v.n]
  ELSE IF v.t = "float" THEN [error |-> NoError, n |-> Trunc(v.n, v.d)]
  ELSE IF v.t = "str" THEN IntOfStr(v.s)
  ELSE [error |-> TypeError, n |-> 0]

Abs(i) == IF i < 0 THEN 0 - i ELSE i

RECURSIVE Gcd(_, _)
Gcd(a, b) == IF b = 0 THEN a ELSE Gcd(b, a % b)

(* the float x / y of two ints, y # 0, as a reduced fraction *)
TrueDiv(x, y) ==
  LET g == Gcd(Abs(x), Abs(y))
      sign == IF y < 0 THEN 0 - 1 ELSE 1
  IN FloatV(sign * (x \div g), Abs(y) \div g)

(* list.index(v): the first position of v; 0 when v is not in the list *)
IndexOf(list, v) ==
  IF \E i \in 1..Len(list) : list[i] = v
    THEN CHOOSE i \in 1..Len(list) :
           list[i] = v /\ \A j \in 1..(i - 1) : list[j] # v
    ELSE 0

Contains(list, v) == \E i \in 1..Len(list) : list[i] = v

(* A dict that keeps insertion order (the Cast Table is iterated): a       *)
(* sequence of [k, v] entries; assignment to an existing key keeps its     *)
(* place.                                                                  *)
DictHas(dict, key) == \E i \in 1..Len(dict) : dict[i].k = key

DictGet(dict, key) == dict[CHOOSE i \in 1..Len(dict) : dict[i].k = key].v

DictSet(dict, key, value) ==
  IF DictHas(dict, key)
    THEN [i \in 1..Len(dict) |->
            IF dict[i].k = key THEN [k |-> key, v |-> value] ELSE dict[i]]
    ELSE Append(dict, [k |-> key, v |-> value])

(***************************************************************************)
(* The virtual machine (vm.py).  A VM object is a record of its fields;    *)
(* `namespace` holds the arrays _alloc stores in the object's __dict__.    *)
(* An array allocated under the name of an attribute replaces that         *)
(* attribute.  Three attribute names are modelled: is_interactive          *)
(* (`interactive` is its truth value, and a list is true when it is not    *)
(* empty), _player_pos and _binds.  While `namespace` has an array under   *)
(* _player_pos or _binds, that array is the attribute, and the field `pos` *)
(* or `binds` is empty.  The lines the model feeds give no other attribute *)
(* name (_stack, _casts, _instructions, _parsed_instructions) to _alloc,   *)
(* _push or _pop.                                                          *)
(***************************************************************************)
Outcome(m, error) == [vm |-> m, error |-> error]

Push(stack, v) == Append(stack, v)
Top(stack) == stack[Len(stack)]
Pop(stack) == SubSeq(stack, 1, Len(stack) - 1)

AttrIsInteractive == StrV(W_is_interactive)
AttrPlayerPos == StrV(W__player_pos)
AttrBinds == StrV(W__binds)
AttrStack == StrV(W__stack)

(* CSNadiaVM.has_more_instructions *)
has_more_instructions(m) == Len(m.parsed) > 0

(* CSNadiaVM.preview_next_instruction: None is the empty sequence *)
preview_next_instruction(m) ==
  IF ~has_more_instructions(m) THEN <<>> ELSE m.parsed[1].command

(* CSNadiaVM.get_position: the tuple, or the array that replaced it *)
get_position(m) ==
  IF AttrPlayerPos \in DOMAIN m.namespace THEN m.namespace[AttrPlayerPos]
  ELSE m.pos

(* CSNadiaVM._alloc *)
VmAlloc(m, name, size) ==
  IF size.t # "int" THEN Outcome(m, TypeError)
  ELSE LET list == [i \in 1..size.n |-> NoneV]
           ns == [k \in DOMAIN m.namespace \cup {name} |->
                    IF k = name THEN list ELSE m.namespace[k]]
       IN IF name = AttrStack THEN Outcome([m EXCEPT !.stack = list], NoError)
          ELSE Outcome([m EXCEPT !.namespace = ns,
                                 !.interactive = IF name = AttrIsInteractive
                                                   THEN size.n > 0 ELSE @,
                                 !.pos = IF name = AttrPlayerPos
                                           THEN <<>> ELSE @,
                                 !.binds = IF name = AttrBinds
                                             THEN << >> ELSE @],
                       NoError)

(* CSNadiaVM._set *)
VmSet(m, target, value) ==
  IF target = KwV(W_constant)
    THEN Outcome([m EXCEPT !.stack = Push(@, value)], NoError)
  ELSE IF target.t = "str" /\ DictHas(m.casts, target)
    THEN Outcome([m EXCEPT !.casts = DictSet(@, target, value)], NoError)
  ELSE Outcome(m, NoError)

(* what self.__dict__[name] is: an array of _alloc ("list"), the stack     *)
(* ("stack"), the position tuple, the bindings dict, the is_interactive    *)
(* bool, or no entry ("missing")                                           *)
Kind(m, name) ==
  IF name \in DOMAIN m.namespace THEN "list"
  ELSE IF name = AttrStack THEN "stack"
  ELSE IF name = AttrPlayerPos THEN "tuple"
  ELSE IF name = AttrBinds THEN "dict"
  ELSE IF name = AttrIsInteractive THEN "bool"
  ELSE "missing"

(* the list or tuple under `name` *)
Listed(m, name) ==
  IF Kind(m, name) = "list" THEN m.namespace[name]
  ELSE IF Kind(m, name) = "stack" THEN m.stack
  ELSE m.pos

(* self.__dict__[name][index] read: the error it raises, or NoError (the   *)
(* parser produces no negative integer)                                    *)
SlotError(m, name, index) ==
  IF Kind(m, name) = "missing" THEN KeyError
  ELSE IF Kind(m, name) = "bool" THEN TypeError
  ELSE IF Kind(m, name) = "dict"
    THEN IF index \in DOMAIN m.binds THEN NoError ELSE KeyError
  ELSE IF index.t # "int" THEN TypeError
  ELSE IF index.n >= Len(Listed(m, name)) THEN IndexError
  ELSE NoError

(* self.__dict__[name][index] = value: the error it raises; a tuple takes  *)
(* no assignment and a dict takes any key                                  *)
StoreError(m, name, index) ==
  IF Kind(m, name) = "tuple" THEN TypeError
  ELSE IF Kind(m, name) = "dict" THEN NoError
  ELSE SlotError(m, name, index)

(* the value of self.__dict__[name][index] *)
Slot(m, name, index) ==
  IF Kind(m, name) = "dict" THEN m.binds[index]
  ELSE Listed(m, name)[index.n + 1]

(* the VM after self.__dict__[name][index] = value *)
Store(m, name, index, value) ==
  IF Kind(m, name) = "dict"
    THEN [m EXCEPT !.binds = [k \in DOMAIN m.binds \cup {index} |->
                                IF k = index THEN value ELSE m.binds[k]]]
  ELSE IF Kind(m, name) = "stack"
    THEN [m EXCEPT !.stack[index.n + 1] = value]
  ELSE [m EXCEPT !.namespace[name][index.n + 1] = value]

(* a _push that takes an index past the end of the array for a no-op *)
VmPushSilent(m, name, index) ==
  IF m.stack = <<>> THEN Outcome(m, IndexError)
  ELSE LET v == Top(m.stack)
           popped == [m EXCEPT !.stack = Pop(@)]
       IN IF StoreError(popped, name, index) = IndexError
            THEN Outcome(popped, NoError)
          ELSE IF StoreError(popped, name, index) # NoError
            THEN Outcome(popped, StoreError(popped, name, index))
          ELSE Outcome(Store(popped, name, index, v), NoError)

(* CSNadiaVM._push: the right-hand side self._stack.pop() is evaluated     *)
(* before the array is looked up                                           *)
VmPush(m, name, index) ==
  IF m.stack = <<>> THEN Outcome(m, IndexError)
  ELSE LET v == Top(m.stack)
           popped == [m EXCEPT !.stack = Pop(@)]
       IN IF StoreError(popped, name, index) # NoError
            THEN Outcome(popped, StoreError(popped, name, index))
            ELSE Outcome(Store(popped, name, index, v), NoError)

(* a _pop that leaves the slot as it was *)
VmPopKeep(m, name, index) ==
  IF SlotError(m, name, index) # NoError
    THEN Outcome(m, SlotError(m, name, index))
    ELSE Outcome([m EXCEPT !.stack = Push(@, Slot(m, name, index))], NoError)

(* the VM after the append of _pop *)
Appended(m, name, index) ==
  [m EXCEPT !.stack = Push(@, Slot(m, name, index))]

(* CSNadiaVM._pop: the slot is appended to the stack, then set to None *)
VmPop(m, name, index) ==
  IF SlotError(m, name, index) # NoError
    THEN Outcome(m, SlotError(m, name, index))
  ELSE IF StoreError(Appended(m, name, index), name, index) # NoError
    THEN Outcome(Appended(m, name, index),
                 StoreError(Appended(m, name, index), name, index))
  ELSE Outcome(Store(Appended(m, name, index), name, index, NoneV), NoError)

(* the transforms table of _move; east is the default of transforms.get *)
Transform(direction) ==
  IF direction = StrV(W_north) THEN <<0 - 1, 0>>
  ELSE IF direction = StrV(W_south) THEN <<1, 0>>
  ELSE IF direction = StrV(W_west) THEN <<0, 0 - 1>>
  ELSE <<0, 1>>

(* coordinate + offset: an int or a float takes the offset, every other   *)
(* value raises TypeError                                                  *)
Shifted(coordinate, offset) ==
  IF coordinate.t = "int"
    THEN [error |-> NoError, value |-> IntV(coordinate.n + offset)]
  ELSE IF coordinate.t = "float"
    THEN [error |-> NoError,
          value |-> FloatV(coordinate.n + offset * coordinate.d, coordinate.d)]
  ELSE [error |-> TypeError, value |-> NoneV]

(* the VM after self._player_pos = position: the attribute is a tuple *)
Positioned(m, position) ==
  [m EXCEPT !.pos = position,
            !.namespace = [k \in DOMAIN m.namespace \ {AttrPlayerPos} |->
                             m.namespace[k]]]

(* CSNadiaVM._move: curr_x, curr_y = self._player_pos raises ValueError    *)
(* unless the position has two elements                                    *)
VmMove(m, direction) ==
  IF Len(get_position(m)) # 2 THEN Outcome(m, ValueError)
  ELSE LET x == Shifted(get_position(m)[1], Transform(direction)[1])
           y == Shifted(get_position(m)[2], Transform(direction)[2])
       IN IF x.error # NoError THEN Outcome(m, x.error)
          ELSE IF y.error # NoError THEN Outcome(m, y.error)
          ELSE Outcome(Positioned(m, <<x.value, y.value>>), NoError)

(* CSNadiaVM._cast: reserved() is a list of str *)
VmCast(m, name, value) ==
  IF name.t = "str" /\ name.s \in CSNadiaLanguageKeyword
    THEN Outcome(m, NoError)
    ELSE Outcome([m EXCEPT !.casts = DictSet(@, name, value)], NoError)

(* Python's == on two values: an int and a float are equal when their     *)
(* numbers are                                                             *)
PyEq(a, b) ==
  IF a.t \in {"int", "float"} /\ b.t \in {"int", "float"}
    THEN a.n * b.d = b.n * a.d
    ELSE a = b

(* `name in self._binds` for the dict, or for the array that replaced it *)
IsBound(m, name) ==
  IF AttrBinds \in DOMAIN m.namespace
    THEN \E i \in 1..Len(m.namespace[AttrBinds]) :
           PyEq(m.namespace[AttrBinds][i], name)
    ELSE name \in DOMAIN m.binds

(* CSNadiaVM._bind (the second definition, which replaces the first):      *)
(* CSNadiaLanguageCommand(command) is evaluated before the assignment to   *)
(* self._binds[name]                                                       *)
VmBind(m, name, command) ==
  IF IsBound(m, name) THEN Outcome(m, NoError)
  ELSE IF ~IsCommandValue(command) THEN Outcome(m, ValueError)
  ELSE IF StoreError(m, AttrBinds, name) # NoError
    THEN Outcome(m, StoreError(m, AttrBinds, name))
  ELSE Outcome(Store(m, AttrBinds, name, CmdV(command.s)), NoError)

(* an arithmetic that takes the operands in the other order: y OP x *)
ArithApplySwapped(m, op, ix, iy) ==
  IF ix.error # NoError THEN Outcome(m, ix.error)
  ELSE IF iy.error # NoError THEN Outcome(m, iy.error)
  ELSE IF op = W_div /\ ix.n = 0 THEN Outcome(m, ZeroDivisionError)
  ELSE Outcome([m EXCEPT !.stack = Push(@,
                  IF op = W_add THEN IntV(iy.n + ix.n)
                  ELSE IF op = W_sub THEN IntV(iy.n - ix.n)
                  ELSE IF op = W_mult THEN IntV(iy.n * ix.n)
                  ELSE TrueDiv(iy.n, ix.n))],
               NoError)

(* int(x) OP int(y) appended to the stack `m` is left with after the two   *)
(* pops; ix and iy are int(x) and int(y)                                   *)
ArithApply(m, op, ix, iy) ==
  IF ix.error # NoError THEN Outcome(m, ix.error)
  ELSE IF iy.error # NoError THEN Outcome(m, iy.error)
  ELSE IF op = W_div /\ iy.n = 0 THEN Outcome(m, ZeroDivisionError)
  ELSE Outcome([m EXCEPT !.stack = Push(@,
                  IF op = W_add THEN IntV(ix.n + iy.n)
                  ELSE IF op = W_sub THEN IntV(ix.n - iy.n)
                  ELSE IF op = W_mult THEN IntV(ix.n * iy.n)
                  ELSE TrueDiv(ix.n, iy.n))],
               NoError)

(* _add, _sub, _mult, _div: x = self._stack.pop(), y = self._stack.pop(),  *)
(* then int(x) OP int(y) is evaluated and appended                         *)
VmArith(m, op) ==
  IF m.stack = <<>> THEN Outcome(m, IndexError)
  ELSE IF Len(m.stack) = 1
    THEN Outcome([m EXCEPT !.stack = Pop(@)], IndexError)
  ELSE ArithApply([m EXCEPT !.stack = Pop(Pop(@))], op,
                  PyInt(Top(m.stack)), PyInt(Top(Pop(m.stack))))

(* CSNadiaVM._neg *)
VmNeg(m) == VmArith([m EXCEPT !.stack = Push(@, IntV(0 - 1))], W_mult)

(* _parse_all, line 263: the assignment of what parse() returned; when it  *)
(* raised, nothing is assigned                                             *)
Reparsed(m, r) ==
  IF r.error # NoError THEN Outcome(m, r.error)
  ELSE Outcome([m EXCEPT !.parsed = r.instructions], NoError)

(* list[e] for an element e of the list itself: the error it raises *)
ListIndexError(list, e) ==
  IF e.t # "int" THEN TypeError
  ELSE IF e.n >= Len(list) \/ e.n < 0 - Len(list) THEN IndexError
  ELSE NoError

(* list[i] for an int i in range; a negative i counts from the end *)
ListItem(list, i) == IF i >= 0 THEN list[i + 1] ELSE list[Len(list) + i + 1]

(* the same loop given a list: `for binding in bindings` runs over its     *)
(* elements, and bindings[binding] indexes the list with each of them      *)
RECURSIVE ParserInitList(_, _, _)
ParserInitList(bindings, i, binds) ==
  IF i > Len(bindings) THEN [error |-> NoError, binds |-> binds]
  ELSE IF ListIndexError(bindings, bindings[i]) # NoError
    THEN [error |-> ListIndexError(bindings, bindings[i]), binds |-> << >>]
  ELSE IF ~IsCommandValue(ListItem(bindings, bindings[i].n))
    THEN [error |-> ValueError, binds |-> << >>]
  ELSE ParserInitList(bindings, i + 1,
         [b \in DOMAIN binds \cup {bindings[i]} |->
            IF b = bindings[i] THEN ListItem(bindings, bindings[i].n).s
            ELSE binds[b]])

(* CSNadiaVM._parse_all: the stored lines are joined by newlines and       *)
(* parsed again under a copy of self._binds; with no stored line the       *)
(* parsed instructions stay as they are                                    *)
ParseAll(m) ==
  IF m.instructions = <<>> THEN Outcome(m, NoError)
  ELSE IF AttrBinds \in DOMAIN m.namespace
    THEN Reparsed(m, ParseFrom(JoinWith(m.instructions, <<NL>>),
                               ParserInitList(m.namespace[AttrBinds], 1,
                                              << >>)))
  ELSE Reparsed(m, Parse(JoinWith(m.instructions, <<NL>>), m.binds))

(* One round of the cast loop of next() for the Cast Table key `cast`:     *)
(* the parameters after it, or hang = TRUE when the key is cast to itself  *)
(* and the inner while loop never ends.                                    *)
SubstituteCast(command, parameters, cast, value) ==
  IF ~Contains(parameters, cast) THEN [hang |-> FALSE, parameters |-> parameters]
  ELSE IF command = W_cast THEN [hang |-> FALSE, parameters |-> parameters]
  ELSE IF command = W_set /\ IndexOf(parameters, cast) = 1
    THEN [hang |-> FALSE, parameters |-> parameters]
  ELSE IF value = cast THEN [hang |-> TRUE, parameters |-> parameters]
  ELSE [hang |-> FALSE,
        parameters |-> [i \in 1..Len(parameters) |->
                          IF parameters[i] = cast THEN value ELSE parameters[i]]]

(* `for cast in self._casts`, in insertion order *)
RECURSIVE SubstituteCasts(_, _, _, _)
SubstituteCasts(command, parameters, casts, i) ==
  IF i > Len(casts) THEN [hang |-> FALSE, parameters |-> parameters]
  ELSE LET r == SubstituteCast(command, parameters, casts[i].k, casts[i].v) IN
    IF r.hang THEN r
    ELSE SubstituteCasts(command, r.parameters, casts, i + 1)

TwoParameterCommands == {W_alloc, W_push, W_pop, W_bind, W_cast, W_set}

(* the dispatch at the end of next(): the handler and the parameters it    *)
(* is called with                                                          *)
Dispatch(m, current) ==
  LET c == current.command
      ps == current.parameters
  IN IF c \in TwoParameterCommands
       THEN IF Len(ps) < 2 THEN Outcome(m, IndexError)
            ELSE IF c = W_alloc THEN VmAlloc(m, ps[1], ps[2])
            ELSE IF c = W_push THEN VmPush(m, ps[1], ps[2])
            ELSE IF c = W_pop THEN VmPop(m, ps[1], ps[2])
            ELSE IF c = W_bind THEN VmBind(m, ps[1], ps[2])
            ELSE IF c = W_cast THEN VmCast(m, ps[1], ps[2])
            ELSE VmSet(m, ps[1], ps[2])
     ELSE IF c = W_move
       THEN IF ps = <<>> THEN Outcome(m, IndexError)
            ELSE VmMove(m, ps[Len(ps)])
     ELSE IF c \in {W_add, W_sub, W_mult, W_div} THEN VmArith(m, c)
     ELSE IF c = W_neg THEN VmNeg(m)
     ELSE Outcome(m, NoError)

(* What a call of next() or input() did: the VM after it, the error it     *)
(* raised, the instruction handed to the dispatch (`ran`, empty when the   *)
(* call raised before it) and the value returned (`ret`, empty for None)   *)
Result(m, error, ran, ret) ==
  [vm |-> m, error |-> error, ran |-> ran, ret |-> ret]

Ran(d, current) == Result(d.vm, d.error, <<current>>, <<>>)

(* next(), lines 216-231: the dispatch on the rewritten instruction        *)
NextDispatch(m, current) ==
  Ran(Dispatch([m EXCEPT !.parsed[1] = current], current), current)

(* next(), lines 204-214: the cast loop rewrites the parameters of the     *)
(* first parsed instruction in place; a loop that never ends returns       *)
(* nothing                                                                 *)
NextCastLoop(m, sub) ==
  IF sub.hang THEN Result(m, NonTermination, <<>>, <<>>)
  ELSE NextDispatch(m, Instruction(m.parsed[1].command, sub.parameters))

(* next(), line 180: the first parsed instruction is read, not removed     *)
NextCurrent(m) ==
  IF m.parsed = <<>> THEN Result(m, IndexError, <<>>, <<>>)
  ELSE NextCastLoop(m, SubstituteCasts(m.parsed[1].command,
                                       m.parsed[1].parameters, m.casts, 1))

(* next(), line 181: an error raised by _parse_all ends the call *)
NextParsed(pa) ==
  IF pa.error # NoError THEN Result(pa.vm, pa.error, <<>>, <<>>)
  ELSE NextCurrent(pa.vm)

(* CSNadiaVM.next *)
VmNext(m) == NextParsed(ParseAll(m))

(* input(), lines 252-255 after next() returned: the inserted line is      *)
(* removed and the top of the stack returned                               *)
InputReturn(m, ran) ==
  Result(m, NoError, ran, IF m.stack = <<>> THEN <<>> ELSE <<Top(m.stack)>>)

(* input(), lines 250-251: the line is inserted first and next() runs;     *)
(* when next() raises, the inserted line stays in the stored lines         *)
InputRun(r) ==
  IF r.error # NoError
    THEN r
    ELSE InputReturn([r.vm EXCEPT !.instructions = Tail(@)], r.ran)

(* a faulty input() that runs the line whatever the interactive flag says; *)
(* C9 must tell it from the code                                           *)
VmInputUngated(m, command) ==
  InputRun(VmNext([m EXCEPT !.instructions = <<command \o <<NL>> >> \o @]))

(* CSNadiaVM.input *)
VmInput(m, command) ==
  IF ~m.interactive
    THEN Result(m, NoError, <<>>, <<>>)
    ELSE InputRun(VmNext([m EXCEPT !.instructions =
                                     <<command \o <<NL>> >> \o @]))

(* a clear that forgets the lines and keeps the parsed instructions *)
VmClearLines(m) == [m EXCEPT !.instructions = <<>>]

(* CSNadiaVM.clear *)
VmClear(m) == [m EXCEPT !.instructions = <<>>, !.parsed = <<>>]

(* source.split("\n") without the empty pieces *)
RECURSIVE SplitLines(_, _)
SplitLines(source, line) ==
  IF source = <<>> THEN IF line = <<>> THEN <<>> ELSE <<line>>
  ELSE IF Head(source) = NL
    THEN (IF line = <<>> THEN <<>> ELSE <<line>>) \o SplitLines(Tail(source), <<>>)
    ELSE SplitLines(Tail(source), Append(line, Head(source)))

(* __init__, lines 81-98: the fields of a new VM; `r` is what parse()      *)
(* returned or raised for the file's text                                  *)
NewVM(lines, r, player_origin, interactive) ==
  [error |-> r.error,
   vm |-> [instructions |-> lines,
           parsed |-> r.instructions,
           stack |-> <<>>,
           casts |-> <<>>,
           binds |-> << >>,
           pos |-> <<IntV(player_origin[1]), IntV(player_origin[2])>>,
           interactive |-> interactive,
           namespace |-> << >>]]

(* CSNadiaVM.__init__ with the text read from `path` (has_path = FALSE:    *)
(* no path keyword).  The raw text is parsed with no bindings.             *)
VmInit(has_path, source, player_origin, interactive) ==
  IF has_path
    THEN NewVM(SplitLines(source, <<>>), Parse(source, << >>),
               player_origin, interactive)
    ELSE NewVM(<<>>, [error |-> NoError, instructions |-> <<>>],
               player_origin, interactive)

(***************************************************************************)
(* Bounds and input sets                                                   *)
(***************************************************************************)
(* lines of a program file *)
MaxProgramLines == 2
(* calls made on a VM constructed from a file *)
MaxCalls == 2
(* calls made on an interactive VM constructed without a file *)
MaxInputs == 4

L_set5 == <<W_set, W_constant, W_5>>
L_set10 == <<W_set, W_constant, W_10>>
L_add == <<W_add>>
L_neg == <<W_neg>>
L_collect == <<W_collect>>
L_cast57 == <<W_cast, W_5, W_7>>
L_move(direction) == <<W_move, W_player, direction>>

Directions == {W_north, W_south, W_east, W_west}

(* the lines program files are made of *)
FileLines == {L_move(d) : d \in Directions} \cup {L_set5, L_collect}

(* the program files: 1..MaxProgramLines lines *)
Programs ==
  UNION {[1..k -> FileLines] : k \in 1..MaxProgramLines}

(* the player origins given to the constructor *)
Origins == {<<0, 0>>, <<2, 3>>}

(* the lines given to input() on a VM constructed from a file *)
FileInputs == {L_set5, L_collect, L_move(W_north)}

(* the lines given to input() on an interactive VM *)
InputLines == {L_set5, L_set10, L_add, L_neg, L_collect, L_cast57,
               L_move(W_north)}

(***************************************************************************)
(* State                                                                   *)
(***************************************************************************)
VARIABLES
  instructions,          \* CSNadiaVM._instructions: the stored lines
  parsed_instructions,   \* CSNadiaVM._parsed_instructions
  stack,                 \* CSNadiaVM._stack
  casts,                 \* CSNadiaVM._casts
  binds,                 \* CSNadiaVM._binds
  player_pos,            \* CSNadiaVM._player_pos
  is_interactive,        \* truth value of CSNadiaVM.is_interactive
  namespace,             \* the arrays in the VM's __dict__
  has_path,              \* the constructor was given a path
  program,               \* the lines (of words) of the file at that path
  budget,                \* the number of calls the caller will make
  log,                   \* one entry per call made on the VM
  p_lines,               \* parser: the lines (of words) of the source
  p_bindings,            \* parser: the bindings keyword
  p_result,              \* parser: what parse() returned or raised
  p_phase,               \* parser: "idle", "ready", "done" or "open"
  code,                  \* CSNadiaVMWriter.code
  w_file,                \* the text at the writer's path
  w_written,             \* write() has been called
  w_calls,               \* the writer methods called so far
  g_data,                \* the two-dimensional list given to CSGrid
  g_grid,                \* CSGrid.grid
  g_list,                \* what as_list() returned
  g_phase,               \* grid: "idle", "data", "built" or "listed"
  t_input,               \* tokenizer: the stream tokenize() was called on
  t_stream,              \* CSNadiaLanguageParser._stream
  t_state,               \* tokenizer: `state` of _next_token, or "off",
                         \* "between" (no call of _next_token running),
                         \* "returned" (tokenize() returned)
  t_type,                \* tokenizer: token_type of _next_token
  t_token,               \* tokenizer: current_token of _next_token
  t_tokens,              \* CSNadiaLanguageParser._tokens
  t_raised,              \* tokenizer: CSNadiaLangTokenizeError was raised
  b_instructions,        \* CSNadiaVMWriterBuilder.instructions, the list of
                         \* the class
  b_built,               \* the builders constructed so far
  b_last,                \* builders: the last call made on a builder
  b_count                \* builders: the number of calls made

vm_vars == <<instructions, parsed_instructions, stack, casts, binds,
             player_pos, is_interactive, namespace, has_path, program,
             budget, log>>

parser_vars == <<p_lines, p_bindings, p_result, p_phase>>

writer_vars == <<code, w_file, w_written, w_calls>>

grid_vars == <<g_data, g_grid, g_list, g_phase>>

tok_vars ==
  <<t_input, t_stream, t_state, t_type, t_token, t_tokens, t_raised>>

builder_vars == <<b_instructions, b_built, b_last, b_count>>

vars == <<vm_vars, parser_vars, writer_vars, grid_vars, tok_vars,
         builder_vars>>

(* no parser object in this run *)
ParserIdle ==
  /\ p_lines = <<>>
  /\ p_bindings = << >>
  /\ p_result = [error |-> NoError, instructions |-> <<>>]
  /\ p_phase = "idle"

(* no grid object in this run *)
GridIdle ==
  /\ g_data = <<>>
  /\ g_grid = <<>>
  /\ g_list = <<>>
  /\ g_phase = "idle"

(* no tokenizer running in this run *)
TokIdle ==
  /\ t_input = <<>>
  /\ t_stream = <<>>
  /\ t_state = "off"
  /\ t_type = "none"
  /\ t_token = <<>>
  /\ t_tokens = <<>>
  /\ t_raised = FALSE

(* a call on a builder: the builder, the method, its argument and the     *)
(* list each builder had before the call                                   *)
BuilderCall(builder, method, arg, pre) ==
  [builder |-> builder, method |-> method, arg |-> arg, pre |-> pre]

NoBuilderCall == BuilderCall(0, "none", FALSE, << >>)

(* no builder object in this run *)
BuilderIdle ==
  /\ b_instructions = <<>>
  /\ b_built = {}
  /\ b_last = NoBuilderCall
  /\ b_count = 0

(* no writer object in this run *)
WriterIdle ==
  /\ code = <<>>
  /\ w_file = <<>>
  /\ w_written = FALSE
  /\ w_calls = <<>>

(* the VM object as a record *)
VM ==
  [instructions |-> instructions, parsed |-> parsed_instructions,
   stack |-> stack, casts |-> casts, binds |-> binds, pos |-> player_pos,
   interactive |-> is_interactive, namespace |-> namespace]

SetVM(m) ==
  /\ instructions' = m.instructions
  /\ parsed_instructions' = m.parsed
  /\ stack' = m.stack
  /\ casts' = m.casts
  /\ binds' = m.binds
  /\ player_pos' = m.pos
  /\ is_interactive' = m.interactive
  /\ namespace' = m.namespace

(* a call that did not return: the caller makes no further call *)
Hung == log # <<>> /\ log[Len(log)].error = NonTermination

CanCall == Len(log) < budget /\ ~Hung

LogEntry(op, arg, r) ==
  [op |-> op, arg |-> arg, error |-> r.error, ran |-> r.ran, ret |-> r.ret,
   pre |-> VM]

(* the object a constructor call `c` that did not raise leaves *)
Constructed(c, with_path, lines, calls) ==
  /\ c.error = NoError
  /\ instructions = c.vm.instructions
  /\ parsed_instructions = c.vm.parsed
  /\ stack = c.vm.stack
  /\ casts = c.vm.casts
  /\ binds = c.vm.binds
  /\ player_pos = c.vm.pos
  /\ is_interactive = c.vm.interactive
  /\ namespace = c.vm.namespace
  /\ has_path = with_path
  /\ program = lines
  /\ budget = calls
  /\ log = <<>>

(* the constructor CSNadiaVM(path=.., player_origin=.., interactive=..)    *)
(* for a file that holds `lines`; a constructor that raises leaves no VM   *)
Construct(with_path, lines, player_origin, interactive, calls) ==
  Constructed(VmInit(with_path, ProgramText(lines), player_origin, interactive),
              with_path, lines, calls)

(* a call made on the VM with the outcome `r` *)
Call(op, arg, r) ==
  /\ SetVM(r.vm)
  /\ log' = Append(log, LogEntry(op, arg, r))
  /\ UNCHANGED <<has_path, program, budget, parser_vars, writer_vars,
               grid_vars, tok_vars, builder_vars>>

(* a caller's next() *)
DoNext ==
  /\ CanCall
  /\ Call("next", <<>>, VmNext(VM))

(* a caller's input(line) *)
DoInput(lines) ==
  /\ CanCall
  /\ \E line \in lines : Call("input", line, VmInput(VM, LineText(line)))

(* a caller's clear() *)
DoClear ==
  /\ CanCall
  /\ Call("clear", <<>>, Result(VmClear(VM), NoError, <<>>, <<>>))

(* Spec: a VM constructed from a program file *)
Init ==
  /\ \E lines \in Programs, o \in Origins, i \in BOOLEAN :
       Construct(TRUE, lines, o, i, MaxCalls)
  /\ ParserIdle
  /\ WriterIdle
  /\ GridIdle
  /\ TokIdle
  /\ BuilderIdle

Next == DoNext \/ DoInput(FileInputs) \/ DoClear

Spec == Init /\ [][Next]_vars

(* SpecBlank: a VM constructed from a program file that may have blank     *)
(* lines                                                                   *)
MaxBlankProgramLines == 3

L_blank == <<>>

BlankFileLines == {L_set5, L_collect, L_blank}

BlankPrograms ==
  UNION {[1..k -> BlankFileLines] : k \in 1..MaxBlankProgramLines}

InitBlank ==
  /\ \E lines \in BlankPrograms, o \in Origins, i \in BOOLEAN :
       Construct(TRUE, lines, o, i, MaxCalls)
  /\ ParserIdle
  /\ WriterIdle
  /\ GridIdle
  /\ TokIdle
  /\ BuilderIdle

NextBlank == DoNext \/ DoInput(FileInputs) \/ DoClear

SpecBlank == InitBlank /\ [][NextBlank]_vars

(* SpecArith: an interactive VM fed constants and arithmetic instructions *)
MaxArithInputs == 3

L_sub == <<W_sub>>
L_mult == <<W_mult>>

ArithLines == {L_set5, L_set10, L_add, L_sub, L_mult, L_neg}

InitArith ==
  /\ Construct(FALSE, <<>>, <<0, 0>>, TRUE, MaxArithInputs)
  /\ ParserIdle
  /\ WriterIdle
  /\ GridIdle
  /\ TokIdle
  /\ BuilderIdle

NextArith == DoNext \/ DoInput(ArithLines) \/ DoClear

SpecArith == InitArith /\ [][NextArith]_vars

(* SpecInteractive: a VM constructed with interactive=True and no file *)
InitInteractive ==
  /\ Construct(FALSE, <<>>, <<0, 0>>, TRUE, MaxInputs)
  /\ ParserIdle
  /\ WriterIdle
  /\ GridIdle
  /\ TokIdle
  /\ BuilderIdle

NextInteractive == DoNext \/ DoInput(InputLines) \/ DoClear

SpecInteractive == InitInteractive /\ [][NextInteractive]_vars

(* SpecCast: an interactive VM fed cast instructions and instructions that *)
(* name a cast                                                             *)
MaxCastInputs == 3

L_cast_n7 == <<W_cast, W_n, W_7>>
L_cast_set5 == <<W_cast, W_set, W_5>>
L_set_n_n == <<W_set, W_n, W_n>>
L_set_constant_n == <<W_set, W_constant, W_n>>

L_set_n5 == <<W_set, W_n, W_5>>

L_cast_n_n == <<W_cast, W_n, W_n>>

CastLines ==
  {L_cast_n7, L_cast_set5, L_cast_n_n, L_set_n_n, L_set_constant_n, L_set5,
   L_set_n5}

InitCast ==
  /\ Construct(FALSE, <<>>, <<0, 0>>, TRUE, MaxCastInputs)
  /\ ParserIdle
  /\ WriterIdle
  /\ GridIdle
  /\ TokIdle
  /\ BuilderIdle

NextCast == DoNext \/ DoInput(CastLines) \/ DoClear

SpecCast == InitCast /\ [][NextCast]_vars

(***************************************************************************)
(* SpecParse: CSNadiaLanguageParser(source, bindings=..).parse() on the    *)
(* sources made of 1..MaxParseLines lines                                  *)
(***************************************************************************)
MaxParseLines == 2

L_var10 == <<W_var, W_constant, W_10>>
L_bind_var_set == <<W_bind, W_var, W_set>>
L_bind_x_var == <<W_bind, W_x, W_var>>
L_push_qx0 == <<W_push, W_qx, W_0>>
L_alloc_x3 == <<W_alloc, W_x, W_3>>
L_notacommand == <<W_notacommand>>
L_set_add5 == <<W_set, W_add, W_5>>

L_5 == <<W_5>>
L_qx == <<W_qx>>
L_constant == <<W_constant>>
L_comment == <<W_comment>>
L_bind_var_notacommand == <<W_bind, W_var, W_notacommand>>
L_bind_var == <<W_bind, W_var>>
L_5abc == <<W_5abc>>

ParseLines ==
  {L_collect, L_set5, L_add, L_var10, L_bind_var_set, L_bind_x_var,
   L_push_qx0, L_alloc_x3, L_move(W_east), L_notacommand, L_set_add5,
   L_5, L_qx, L_constant, L_comment, L_bind_var_notacommand, L_bind_var,
   L_5abc}

ParseSources == UNION {[1..k -> ParseLines] : k \in 1..MaxParseLines}

(* the seed bindings given to the parser *)
SeedBindings == {<< >>, (StrV(W_var) :> CmdV(W_set))}

(* no VM object in this run *)
VmIdle ==
  /\ instructions = <<>>
  /\ parsed_instructions = <<>>
  /\ stack = <<>>
  /\ casts = <<>>
  /\ binds = << >>
  /\ player_pos = <<IntV(0), IntV(0)>>
  /\ is_interactive = FALSE
  /\ namespace = << >>
  /\ has_path = FALSE
  /\ program = <<>>
  /\ budget = 0
  /\ log = <<>>

InitParse ==
  /\ p_lines \in ParseSources
  /\ p_bindings \in SeedBindings
  /\ p_result = [error |-> NoError, instructions |-> <<>>]
  /\ p_phase = "ready"
  /\ VmIdle
  /\ WriterIdle
  /\ GridIdle
  /\ TokIdle
  /\ BuilderIdle

(* parser = CSNadiaLanguageParser(text, bindings=..); parser.parse() *)
DoParse ==
  /\ p_phase = "ready"
  /\ p_result' = Parse(ProgramText(p_lines), p_bindings)
  /\ p_phase' = "done"
  /\ UNCHANGED <<p_lines, p_bindings, vm_vars, writer_vars, grid_vars, tok_vars, builder_vars>>

(* the text of a source whose last line has no newline after it *)
OpenText(lines) ==
  JoinWith([i \in 1..Len(lines) |-> LineText(lines[i])], <<NL>>)

(* the same call on a source that does not end with a newline *)
DoParseOpen ==
  /\ p_phase = "ready"
  /\ p_result' = Parse(OpenText(p_lines), p_bindings)
  /\ p_phase' = "open"
  /\ UNCHANGED <<p_lines, p_bindings, vm_vars, writer_vars, grid_vars, tok_vars, builder_vars>>

NextParse == DoParse \/ DoParseOpen

SpecParse == InitParse /\ [][NextParse]_vars

(* SpecBind: an interactive VM fed bind instructions and lines that begin  *)
(* with an alias                                                           *)
MaxBindInputs == 3

L_bind_var_add == <<W_bind, W_var, W_add>>
L_cast_y_var == <<W_cast, W_y, W_var>>
L_bind_y_add == <<W_bind, W_y, W_add>>
L_var_constant_10 == <<W_var, W_constant, W_10>>
L_bind_go_move == <<W_bind, W_go, W_move>>
L_go_player_north == <<W_go, W_player, W_north>>

BindLines ==
  {L_bind_var_set, L_bind_var_add, L_cast_y_var, L_bind_y_add,
   L_var_constant_10, L_bind_go_move, L_go_player_north, L_add}

InitBind ==
  /\ Construct(FALSE, <<>>, <<0, 0>>, TRUE, MaxBindInputs)
  /\ ParserIdle
  /\ WriterIdle
  /\ GridIdle
  /\ TokIdle
  /\ BuilderIdle

NextBind == DoNext \/ DoInput(BindLines) \/ DoClear

SpecBind == InitBind /\ [][NextBind]_vars

(* SpecArray: an interactive VM fed array and stack instructions *)
MaxArrayInputs == 4

L_alloc_x2 == <<W_alloc, W_x, W_2>>
L_push_x0 == <<W_push, W_x, W_0>>
L_push_x2 == <<W_push, W_x, W_2>>
L_pop_x0 == <<W_pop, W_x, W_0>>
L_pop_x2 == <<W_pop, W_x, W_2>>

ArrayLines ==
  {L_alloc_x2, L_set5, L_push_x0, L_push_x2, L_pop_x0, L_pop_x2, L_add}

InitArray ==
  /\ Construct(FALSE, <<>>, <<0, 0>>, TRUE, MaxArrayInputs)
  /\ ParserIdle
  /\ WriterIdle
  /\ GridIdle
  /\ TokIdle
  /\ BuilderIdle

NextArray == DoNext \/ DoInput(ArrayLines) \/ DoClear

SpecArray == InitArray /\ [][NextArray]_vars

(* SpecAttr: an interactive VM fed lines that cast a name to the name of   *)
(* an attribute of the VM and then give that name to alloc, push and pop   *)
MaxAttrInputs == 3

L_cast_x_player_pos == <<W_cast, W_x, W__player_pos>>
L_cast_y_binds == <<W_cast, W_y, W__binds>>
L_alloc_y2 == <<W_alloc, W_y, W_2>>

AttrLines ==
  {L_cast_x_player_pos, L_cast_y_binds, L_alloc_x2, L_alloc_y2,
   L_push_x0, L_pop_x0, L_move(W_north), L_bind_var_set,
   L_var_constant_10, L_set5}

InitAttr ==
  /\ Construct(FALSE, <<>>, <<0, 0>>, TRUE, MaxAttrInputs)
  /\ ParserIdle
  /\ WriterIdle
  /\ GridIdle
  /\ TokIdle
  /\ BuilderIdle

NextAttr == DoNext \/ DoInput(AttrLines) \/ DoClear

SpecAttr == InitAttr /\ [][NextAttr]_vars

(* SpecFlag: a VM constructed with interactive=False from a program file   *)
(* that may allocate an array named is_interactive                         *)
MaxFlagProgramLines == 2

MaxFlagCalls == 3

L_alloc_is_interactive_3 == <<W_alloc, W_is_interactive, W_3>>
L_alloc_is_interactive_0 == <<W_alloc, W_is_interactive, W_0>>

FlagFileLines ==
  {L_alloc_is_interactive_3, L_alloc_is_interactive_0, L_alloc_x2,
   L_set5, L_collect}

FlagPrograms ==
  UNION {[1..k -> FlagFileLines] : k \in 1..MaxFlagProgramLines}

InitFlag ==
  /\ \E lines \in FlagPrograms, o \in Origins :
       Construct(TRUE, lines, o, FALSE, MaxFlagCalls)
  /\ ParserIdle
  /\ WriterIdle
  /\ GridIdle
  /\ TokIdle
  /\ BuilderIdle

NextFlag == DoNext \/ DoInput(FileInputs) \/ DoClear

SpecFlag == InitFlag /\ [][NextFlag]_vars

(* SpecKeyword: an interactive VM fed cast and bind instructions that aim  *)
(* a binding at the word of a command, and lines that begin with a command *)
MaxKeywordInputs == 4

L_cast_x_add == <<W_cast, W_x, W_add>>
L_bind_x_sub == <<W_bind, W_x, W_sub>>
L_bind_add_sub == <<W_bind, W_add, W_sub>>

KeywordLines ==
  {L_cast_x_add, L_bind_x_sub, L_bind_add_sub, L_cast_n_n, L_set_constant_n,
   L_set5, L_add}

InitKeyword ==
  /\ Construct(FALSE, <<>>, <<0, 0>>, TRUE, MaxKeywordInputs)
  /\ ParserIdle
  /\ WriterIdle
  /\ GridIdle
  /\ TokIdle
  /\ BuilderIdle

NextKeyword == DoNext \/ DoInput(KeywordLines) \/ DoClear

SpecKeyword == InitKeyword /\ [][NextKeyword]_vars

(* SpecDispatch: next() on a VM that holds one parsed Instruction and no   *)
(* line; the Instruction's command is any word of the Keyword set          *)
MaxDispatchCalls == 2

(* the keys of the instruct table of next() *)
InstructTable ==
  {W_alloc, W_push, W_pop, W_set, W_move, W_bind, W_cast, W_add, W_sub,
   W_mult, W_div, W_neg, W_exit, W_collect}

CSNadiaVMCommandNotFoundError == "CSNadiaVMCommandNotFoundError"

DispatchCommands == CSNadiaLanguageKeyword

DispatchParameters ==
  {<<>>, <<IntV(5)>>, <<StrV(W_x), IntV(2)>>, <<KwV(W_constant), IntV(5)>>,
   <<KwV(W_player), StrV(W_north)>>, <<StrV(W_var), CmdV(W_set)>>}

(* a new interactive VM whose parsed instructions are `current` alone *)
Loaded(current) ==
  [error |-> NoError,
   vm |-> [VmInit(FALSE, <<>>, <<0, 0>>, TRUE).vm
             EXCEPT !.parsed = <<current>>]]

InitDispatch ==
  /\ \E c \in DispatchCommands, ps \in DispatchParameters :
       Constructed(Loaded(Instruction(c, ps)), FALSE, <<>>, MaxDispatchCalls)
  /\ ParserIdle
  /\ WriterIdle
  /\ GridIdle
  /\ TokIdle
  /\ BuilderIdle

NextOfDispatch == DoNext \/ DoClear

SpecDispatch == InitDispatch /\ [][NextOfDispatch]_vars

(***************************************************************************)
(* SpecWriter: a CSNadiaVMWriter, its methods and write()                  *)
(***************************************************************************)
MaxWriterCalls == 3

RECURSIVE NatToChars(_)
NatToChars(i) ==
  LET digit == CHOOSE ch \in digits : DigitVal(ch) = i % 10 IN
    IF i < 10 THEN <<digit>> ELSE Append(NatToChars(i \div 10), digit)

(* str(v) / "%s" % v for the values the writer is given *)
Str(v) ==
  IF v.t = "int"
    THEN IF v.n < 0 THEN <<"-">> \o NatToChars(0 - v.n) ELSE NatToChars(v.n)
    ELSE v.s

Chars(string) ==
  CASE string = "alloc " -> W_alloc \o <<SP>>
    [] string = "push " -> W_push \o <<SP>>
    [] string = "pop " -> W_pop \o <<SP>>
    [] string = "set constant " -> W_set \o <<SP>> \o W_constant \o <<SP>>
    [] string = "move player " -> W_move \o <<SP>> \o W_player \o <<SP>>
    [] string = "bind " -> W_bind \o <<SP>>
    [] string = "collect" -> W_collect
    [] string = "exit player" -> W_exit \o <<SP>> \o W_player
    [] string = "add" -> W_add
    [] string = "sub" -> W_sub
    [] string = "mult" -> W_mult
    [] string = "div" -> W_div
    [] string = "neg" -> W_neg

(* the values writer methods are called with *)
WriterValues == {IntV(5), IntV(10)}
WriterNames == {StrV(W_x)}
WriterIndexes == {IntV(0), IntV(3)}
WriterDirections == {StrV(W_north), StrV(W_east)}

InitWriter ==
  /\ code = <<>>
  /\ w_file = <<>>
  /\ w_written = FALSE
  /\ w_calls = <<>>
  /\ VmIdle
  /\ ParserIdle
  /\ GridIdle
  /\ TokIdle
  /\ BuilderIdle

(* the caller makes at most MaxWriterCalls calls before write() *)
CanWrite == Len(w_calls) < MaxWriterCalls

(* self.code += line, for the writer method `method` *)
WriterAppend(method, args, line) ==
  /\ code' = code \o line
  /\ w_calls' = Append(w_calls, [method |-> method, args |-> args])
  /\ UNCHANGED <<w_file, w_written, vm_vars, parser_vars, grid_vars, tok_vars, builder_vars>>

(* CSNadiaVMWriter.alloc *)
WriterAlloc ==
  /\ CanWrite
  /\ \E name \in WriterNames, size \in WriterIndexes :
      WriterAppend(W_alloc, <<name, size>>,
                   Chars("alloc ") \o Str(name) \o <<SP>> \o Str(size) \o <<NL>>)

(* CSNadiaVMWriter.push *)
WriterPush ==
  /\ CanWrite
  /\ \E name \in WriterNames, index \in WriterIndexes :
      WriterAppend(W_push, <<name, index>>,
                   Chars("push ") \o Str(name) \o <<SP>> \o Str(index) \o <<NL>>)

(* CSNadiaVMWriter.pop *)
WriterPop ==
  /\ CanWrite
  /\ \E name \in WriterNames, index \in WriterIndexes :
      WriterAppend(W_pop, <<name, index>>,
                   Chars("pop ") \o Str(name) \o <<SP>> \o Str(index) \o <<NL>>)

(* CSNadiaVMWriter.set *)
WriterSet ==
  /\ CanWrite
  /\ \E value \in WriterValues :
      WriterAppend(W_set, <<value>>,
                   Chars("set constant ") \o Str(value) \o <<NL>>)

(* CSNadiaVMWriter.move *)
WriterMove ==
  /\ CanWrite
  /\ \E direction \in WriterDirections :
      WriterAppend(W_move, <<direction>>,
                   Chars("move player ") \o direction.s \o <<NL>>)

(* CSNadiaVMWriter.bind *)
WriterBind ==
  /\ CanWrite
  /\ \E name \in {StrV(W_var)}, command \in {StrV(W_set)} :
      WriterAppend(W_bind, <<name, command>>,
                   Chars("bind ") \o Str(name) \o <<SP>> \o Str(command) \o <<NL>>)

(* CSNadiaVMWriter.cast: the line it appends starts with "bind" *)
WriterCast ==
  /\ CanWrite
  /\ \E name \in {StrV(W_n)}, value \in {IntV(7)} :
      WriterAppend(W_cast, <<name, value>>,
                   Chars("bind ") \o Str(name) \o <<SP>> \o Str(value) \o <<NL>>)

(* CSNadiaVMWriter.collect *)
WriterCollect ==
  /\ CanWrite
  /\ WriterAppend(W_collect, <<>>, Chars("collect") \o <<NL>>)

(* CSNadiaVMWriter.exit *)
WriterExit ==
  /\ CanWrite
  /\ WriterAppend(W_exit, <<>>, Chars("exit player") \o <<NL>>)

(* CSNadiaVMWriter.add, sub, mult, div, neg *)
WriterAdd ==
  /\ CanWrite
  /\ WriterAppend(W_add, <<>>, Chars("add") \o <<NL>>)
WriterSub ==
  /\ CanWrite
  /\ WriterAppend(W_sub, <<>>, Chars("sub") \o <<NL>>)
WriterMult ==
  /\ CanWrite
  /\ WriterAppend(W_mult, <<>>, Chars("mult") \o <<NL>>)
WriterDiv ==
  /\ CanWrite
  /\ WriterAppend(W_div, <<>>, Chars("div") \o <<NL>>)
WriterNeg ==
  /\ CanWrite
  /\ WriterAppend(W_neg, <<>>, Chars("neg") \o <<NL>>)

(* CSNadiaVMWriter.write *)
WriterWrite ==
  /\ ~w_written
  /\ w_file' = code
  /\ w_written' = TRUE
  /\ UNCHANGED <<code, w_calls, vm_vars, parser_vars, grid_vars, tok_vars, builder_vars>>

NextWriter ==
  \/ WriterAlloc \/ WriterPush \/ WriterPop \/ WriterSet \/ WriterMove
  \/ WriterBind \/ WriterCast \/ WriterCollect \/ WriterExit
  \/ WriterAdd \/ WriterSub \/ WriterMult \/ WriterDiv \/ WriterNeg
  \/ WriterWrite

SpecWriter == InitWriter /\ [][NextWriter]_vars

(***************************************************************************)
(* SpecBuilder: two CSNadiaVMWriterBuilder objects.  `instructions` is an  *)
(* attribute of the class, and no method assigns self.instructions: every  *)
(* method reaches the list of the class through the object.  Of the        *)
(* recording methods, which all append one line, push, pop and collect are *)
(* modelled.                                                               *)
(***************************************************************************)
MaxBuilderCalls == 5

Builders == {1, 2}

(* builder.instructions: the attribute lookup finds the list of the class *)
BuilderInstructions(builder) == b_instructions

InitBuilder ==
  /\ b_instructions = <<>>
  /\ b_built = {}
  /\ b_last = NoBuilderCall
  /\ b_count = 0
  /\ VmIdle
  /\ ParserIdle
  /\ WriterIdle
  /\ GridIdle
  /\ TokIdle

(* the caller makes at most MaxBuilderCalls calls *)
CanBuild == b_count < MaxBuilderCalls

(* a call of `method` on `builder` that leaves the list `after` *)
BuilderDoes(builder, method, arg, after) ==
  /\ b_instructions' = after
  /\ b_last' = BuilderCall(builder, method, arg,
                           [b \in Builders |-> BuilderInstructions(b)])
  /\ b_count' = b_count + 1
  /\ UNCHANGED <<vm_vars, parser_vars, writer_vars, grid_vars, tok_vars>>

(* CSNadiaVMWriterBuilder(path): __init__ stores the path only *)
BuilderInit ==
  /\ CanBuild
  /\ \E builder \in Builders \ b_built :
       /\ b_built' = b_built \cup {builder}
       /\ BuilderDoes(builder, "__init__", FALSE,
                      BuilderInstructions(builder))

(* self.instructions.append(line) *)
BuilderAppend(builder, method, line) ==
  /\ UNCHANGED b_built
  /\ BuilderDoes(builder, method, FALSE,
                 Append(BuilderInstructions(builder), line))

(* CSNadiaVMWriterBuilder.push *)
BuilderPush ==
  /\ CanBuild
  /\ \E builder \in b_built :
       BuilderAppend(builder, "push",
                     Chars("push ") \o W_x \o <<SP>> \o W_0 \o <<NL>>)

(* CSNadiaVMWriterBuilder.pop *)
BuilderPop ==
  /\ CanBuild
  /\ \E builder \in b_built :
       BuilderAppend(builder, "pop",
                     Chars("pop ") \o W_x \o <<SP>> \o W_0 \o <<NL>>)

(* CSNadiaVMWriterBuilder.collect *)
BuilderCollect ==
  /\ CanBuild
  /\ \E builder \in b_built :
       BuilderAppend(builder, "collect", Chars("collect") \o <<NL>>)

(* CSNadiaVMWriterBuilder.clear: del self.instructions[:] *)
BuilderClear ==
  /\ CanBuild
  /\ UNCHANGED b_built
  /\ \E builder \in b_built : BuilderDoes(builder, "clear", FALSE, <<>>)

(* the list after undo: the last instruction is popped and compared with   *)
(* the str "collect"; when they are equal and ignore_collect is false, two *)
(* more are popped (a pop that finds the list empty raises IndexError and  *)
(* leaves it empty)                                                        *)
Undone(list, ignore_collect) ==
  IF list = <<>> THEN list
  ELSE IF list[Len(list)] = Chars("collect") /\ ~ignore_collect
    THEN IF Len(list) >= 3 THEN SubSeq(list, 1, Len(list) - 3) ELSE <<>>
  ELSE SubSeq(list, 1, Len(list) - 1)

(* CSNadiaVMWriterBuilder.undo *)
BuilderUndo ==
  /\ CanBuild
  /\ UNCHANGED b_built
  /\ \E builder \in b_built, ignore_collect \in BOOLEAN :
       BuilderDoes(builder, "undo", ignore_collect,
                   Undone(BuilderInstructions(builder), ignore_collect))

NextBuilder ==
  \/ BuilderInit \/ BuilderPush \/ BuilderPop \/ BuilderCollect
  \/ BuilderClear \/ BuilderUndo

SpecBuilder == InitBuilder /\ [][NextBuilder]_vars

(***************************************************************************)
(* The grid of the minigame world (grid.py, data.py)                       *)
(***************************************************************************)
(* the largest number of rows, and of columns, of a drawn grid *)
MaxGridSide == 2

(* Python's None as the item of a cell *)
None == "None"

(* world_map_terrain.get(line, "AIR") *)
WorldMapTerrain(ch) ==
  CASE ch = "%" -> "WALL"
    [] ch = "P" -> "PLAYER"
    [] ch = "E" -> "EXIT"
    [] ch = "." -> "COIN"
    [] OTHER -> "AIR"

(* CSWorldDataGenerator.__init__: the loop over the characters of the
   data, with the rows finished so far and the row being filled; a row
   ends at a newline, and characters after the last newline are in no row *)
RECURSIVE WorldMatrix(_, _, _)
WorldMatrix(data, world_matrix, current_row) ==
  IF data = <<>> THEN world_matrix
  ELSE IF Head(data) = "\n"
       THEN WorldMatrix(Tail(data), Append(world_matrix, current_row), <<>>)
       ELSE WorldMatrix(Tail(data), world_matrix,
                        Append(current_row, WorldMapTerrain(Head(data))))

(* DUMMY_DATA of the tests: the 3x5 world *)
DUMMY_DATA ==
  <<"%", "%", "%", "%", "%", "\n",
    "%", "P", ".", "E", "%", "\n",
    "%", "%", "%", "%", "%", "\n">>

(* CSWorldDataGenerator(data)._data *)
CSWorldDataGenerator(data) == WorldMatrix(data, <<>>, <<>>)

(* the filters of to_grid(), coins() and walls() *)
NoFilter == "no filter"
GridFilters == {NoFilter, "COIN", "WALL"}

(* CSGrid.__init__: with a filter, the items that do not match become None *)
CSGridInit(grid, grid_filter) ==
  IF grid_filter # NoFilter
  THEN [row \in 1..Len(grid) |->
          [column \in 1..Len(grid[row]) |->
             IF grid[row][column] = grid_filter THEN grid[row][column]
             ELSE None]]
  ELSE grid

(* the (row, column) pairs the two loops of as_list visit, in order *)
Visited(rows, columns) ==
  [i \in 1..(rows * columns) |->
     <<(i - 1) \div columns, (i - 1) % columns>>]

(* CSGrid.as_list: range(len(self.grid) - 1), range(len(self.grid[0]) - 1) *)
as_list(grid) ==
  IF Len(grid) - 1 <= 0 THEN <<>>
  ELSE IF Len(grid[1]) - 1 <= 0 THEN <<>>
  ELSE LET keep(rc) == grid[rc[1] + 1][rc[2] + 1] # None
       IN  SelectSeq(Visited(Len(grid) - 1, Len(grid[1]) - 1), keep)

(* the rectangular grids of at most MaxGridSide rows and columns *)
GridItems == {"WALL", "COIN"}
DrawnGrids ==
  UNION {[1..rows -> [1..columns -> GridItems]] :
           rows \in 1..MaxGridSide, columns \in 1..MaxGridSide}

InitGrid ==
  /\ g_data \in DrawnGrids \cup {CSWorldDataGenerator(DUMMY_DATA)}
  /\ g_grid = <<>>
  /\ g_list = <<>>
  /\ g_phase = "data"
  /\ VmIdle
  /\ ParserIdle
  /\ WriterIdle
  /\ TokIdle
  /\ BuilderIdle

(* CSGrid(data, grid_filter) *)
GridConstruct ==
  /\ g_phase = "data"
  /\ \E grid_filter \in GridFilters :
       g_grid' = CSGridInit(g_data, grid_filter)
  /\ g_phase' = "built"
  /\ UNCHANGED <<g_data, g_list, vm_vars, parser_vars, writer_vars, tok_vars, builder_vars>>

(* grid.as_list() *)
GridAsList ==
  /\ g_phase = "built"
  /\ g_list' = as_list(g_grid)
  /\ g_phase' = "listed"
  /\ UNCHANGED <<g_data, g_grid, vm_vars, parser_vars, writer_vars, tok_vars, builder_vars>>

NextGrid == GridConstruct \/ GridAsList

SpecGrid == InitGrid /\ [][NextGrid]_vars

(***************************************************************************)
(* The tokenizer step by step (lang.py): tokenize() calls _next_token      *)
(* while the stream has characters, and every round of the while loop of   *)
(* _next_token takes one character                                         *)
(***************************************************************************)
(* the longest stream given to tokenize() *)
MaxStreamLen == 3

StreamChars == {"a", "5", ";", QUOTE, NL, SP}

Streams == UNION {[1..k -> StreamChars] : k \in 0..MaxStreamLen}

(* a tokenizer that has no token for a character outside the four classes *)
StartStateStrict(ch) ==
  IF StartType(ch) = "any" THEN "error" ELSE "progress"

(* the state after the START branch: every class goes to IN_PROGRESS *)
StartState(ch) == "progress"

InitTokenize ==
  /\ t_input \in Streams
  /\ t_stream = t_input
  /\ t_state = "between"
  /\ t_type = "none"
  /\ t_token = <<>>
  /\ t_tokens = <<>>
  /\ t_raised = FALSE
  /\ VmIdle
  /\ ParserIdle
  /\ WriterIdle
  /\ GridIdle
  /\ BuilderIdle

(* tokenize() calls _next_token, which enters its loop in state START and  *)
(* takes the first character                                               *)
TokStart ==
  /\ t_state = "between"
  /\ t_stream # <<>>
  /\ t_type' = StartType(Head(t_stream))
  /\ t_token' = <<Head(t_stream)>>
  /\ t_state' = StartState(Head(t_stream))
  /\ t_stream' = Tail(t_stream)
  /\ UNCHANGED <<t_input, t_tokens, t_raised, vm_vars, parser_vars,
                 writer_vars, grid_vars, builder_vars>>

(* a round of the loop in state IN_PROGRESS *)
TokChar ==
  /\ t_state = "progress"
  /\ t_stream # <<>>
  /\ t_state' = IF Finishes(t_type, Head(t_stream)) THEN "finish"
                ELSE "progress"
  /\ t_token' = IF Finishes(t_type, Head(t_stream)) /\ t_type # "string"
                  THEN t_token ELSE Append(t_token, Head(t_stream))
  /\ t_stream' = Tail(t_stream)
  /\ UNCHANGED <<t_input, t_type, t_tokens, t_raised, vm_vars, parser_vars,
                 writer_vars, grid_vars, builder_vars>>

(* the stream ran out inside the loop: _next_token returns, no token *)
TokRunOut ==
  /\ t_state = "progress"
  /\ t_stream = <<>>
  /\ t_state' = "between"
  /\ t_type' = "none"
  /\ t_token' = <<>>
  /\ UNCHANGED <<t_input, t_stream, t_tokens, t_raised, vm_vars, parser_vars,
                 writer_vars, grid_vars, builder_vars>>

(* the loop ended: in state ERROR the token is raised as a tokenize error, *)
(* in state FINISH it is appended, as a keyword when its contents is one   *)
TokEnd ==
  /\ t_state \in {"finish", "error"}
  /\ IF t_state = "error"
       THEN t_raised' = TRUE /\ t_state' = "returned" /\ UNCHANGED t_tokens
       ELSE /\ t_tokens' = Append(t_tokens,
                 Token(IF IsKeyword(t_token) THEN "keyword" ELSE t_type,
                       t_token))
            /\ t_state' = "between"
            /\ UNCHANGED t_raised
  /\ t_type' = "none"
  /\ t_token' = <<>>
  /\ UNCHANGED <<t_input, t_stream, vm_vars, parser_vars, writer_vars,
                 grid_vars, builder_vars>>

(* the stream is empty: tokenize() returns the tokens *)
TokReturn ==
  /\ t_state = "between"
  /\ t_stream = <<>>
  /\ t_state' = "returned"
  /\ UNCHANGED <<t_input, t_stream, t_type, t_token, t_tokens, t_raised,
                 vm_vars, parser_vars, writer_vars, grid_vars,
                 builder_vars>>

NextTokenize == TokStart \/ TokChar \/ TokRunOut \/ TokEnd \/ TokReturn

SpecTokenize ==
  InitTokenize /\ [][NextTokenize]_vars /\ WF_vars(NextTokenize)

(***************************************************************************)
(* Properties of the VM calls                                              *)
(***************************************************************************)
LastCall == log[Len(log)]

OnlyNextCalls == \A i \in 1..Len(log) : log[i].op = "next"

AllSucceeded == \A i \in 1..Len(log) : log[i].error = NoError

(* the instruction a program line stands for: the line parsed on its own *)
LineInstruction(line) ==
  Parse(LineText(line) \o <<NL>>, << >>).instructions[1]

(* what an instruction can change *)
Effect(m) ==
  [stack |-> m.stack, casts |-> m.casts, binds |-> m.binds, pos |-> m.pos,
   namespace |-> m.namespace]

(* the call `e` succeeded and left the effect of `instruction` *)
AppliesInstruction(e, instruction) ==
  /\ e.error = NoError
  /\ Effect(VM) = Effect(Dispatch(e.pre, instruction).vm)

(* C1: on a VM constructed from a program file of n >= 1 lines, the k-th   *)
(* of k <= n successive next() calls applies the effect of the k-th        *)
(* instruction of the program.                                             *)
C1_NextRunsInProgramOrder ==
  (has_path /\ log # <<>> /\ OnlyNextCalls /\ Len(log) <= Len(program))
    => AppliesInstruction(LastCall, LineInstruction(program[Len(log)]))

(* C2: on a VM constructed from a program of n instructions, after n       *)
(* successful next() calls has_more_instructions() returns false.          *)
C2_NoMoreAfterLastInstruction ==
  (has_path /\ OnlyNextCalls /\ AllSucceeded /\ Len(log) = Len(program))
    => ~has_more_instructions(VM)

(* C6: a VM constructed from the one-line file `move player d` with player *)
(* origin (r, c) is, after one next() call, at (r, c) plus the unit vector *)
(* of d: north (-1,0), south (1,0), west (0,-1), east (0,1).               *)
UnitVector(d) ==
  IF d = W_north THEN <<0 - 1, 0>>
  ELSE IF d = W_south THEN <<1, 0>>
  ELSE IF d = W_west THEN <<0, 0 - 1>>
  ELSE <<0, 1>>

MovedBy(e, u) ==
  /\ e.error = NoError
  /\ player_pos = <<IntV(e.pre.pos[1].n + u[1]), IntV(e.pre.pos[2].n + u[2])>>

C6_MoveAddsUnitVector ==
  (has_path /\ Len(program) = 1 /\ program[1][1] = W_move
     /\ Len(log) = 1 /\ log[1].op = "next")
    => MovedBy(log[1], UnitVector(program[1][3]))

(* C8: on a VM constructed from a path, the instruction list re-derived    *)
(* from the stored lines on each next() call equals the list parsed from   *)
(* the raw file text at construction.                                      *)
C8_RederivedListEqualsConstructed ==
  (has_path /\ log # <<>> /\ OnlyNextCalls)
    => ParseAll(LastCall.pre).vm.parsed
         = Parse(ProgramText(program), << >>).instructions

(* C9: on a VM whose interactive flag is false, input(text) returns        *)
(* nothing and leaves the pending queue, the stack, the arrays, the casts, *)
(* the bindings and the position unchanged.                                *)
C9_InputIgnoredWhenNotInteractive ==
  (log # <<>> /\ LastCall.op = "input" /\ ~LastCall.pre.interactive)
    => /\ LastCall.error = NoError
       /\ LastCall.ret = <<>>
       /\ VM = LastCall.pre

(* an input() call on a non-interactive VM that has a value on its stack   *)
(* and a pending instruction                                               *)
C9_Witness ==
  /\ log # <<>>
  /\ LastCall.op = "input"
  /\ ~LastCall.pre.interactive
  /\ LastCall.pre.stack # <<>>
  /\ LastCall.pre.parsed # <<>>

(***************************************************************************)
(* Properties of the parser                                                *)
(***************************************************************************)
(* a leading token the parser accepts: a command or a seeded alias *)
IsLead(word, bindings) ==
  word \in CSNadiaLanguageCommand \/ StrV(word) \in DOMAIN bindings

(* the command a leading token stands for *)
LeadCommand(word, bindings) ==
  IF StrV(word) \in DOMAIN bindings THEN bindings[StrV(word)].s ELSE word

(* a command line: a lead followed by parameters that are not commands *)
CommandLine(line, bindings) ==
  /\ IsLead(line[1], bindings)
  /\ \A i \in 2..Len(line) : ~IsLead(line[i], bindings)

(* the value a parameter word stands for: a digit run is an integer, a     *)
(* reserved word its Keyword value, anything else text                     *)
TypedWord(word) ==
  IF \A i \in 1..Len(word) : word[i] \in digits
    THEN IntV(DigitsToInt(word, 0))
  ELSE IF word \in CSNadiaLanguageKeyword THEN KwV(word)
  ELSE StrV(word)

(* the instruction a command line stands for *)
TypedInstruction(line, bindings) ==
  Instruction(LeadCommand(line[1], bindings),
              [i \in 1..(Len(line) - 1) |-> TypedWord(line[i + 1])])

(* parse returned one instruction per line, each with its line's command *)
OnePerLine(r, lines, bindings) ==
  /\ r.error = NoError
  /\ Len(r.instructions) = Len(lines)
  /\ \A i \in 1..Len(lines) :
       r.instructions[i].command = LeadCommand(lines[i][1], bindings)

(* C3: for a text of m >= 1 newline-terminated command lines, parse        *)
(* returns exactly m Instructions in source order.                         *)
C3_OneInstructionPerLine ==
  (p_phase = "done"
     /\ \A i \in 1..Len(p_lines) : CommandLine(p_lines[i], p_bindings))
    => OnePerLine(p_result, p_lines, p_bindings)

(* C4: for a single-line source whose lead is a command or a seeded alias, *)
(* parse returns exactly one Instruction with that command and the line's  *)
(* parameters in order, typed.                                             *)
C4_SingleLineTypedParameters ==
  (p_phase = "done" /\ Len(p_lines) = 1 /\ IsLead(p_lines[1][1], p_bindings))
    => p_result = [error |-> NoError,
                   instructions |-> <<TypedInstruction(p_lines[1], p_bindings)>>]

(***************************************************************************)
(* Properties of the interactive VM                                        *)
(***************************************************************************)
(* the call was input('set constant a') for a digit run a *)
IsSetConstant(e) ==
  /\ e.op = "input"
  /\ Len(e.arg) = 3
  /\ e.arg[1] = W_set
  /\ e.arg[2] = W_constant
  /\ \A i \in 1..Len(e.arg[3]) : e.arg[3][i] \in digits

(* the stack is S followed by the sum, and the last call returned the sum *)
LeftSum(S, sum, e) ==
  /\ stack = Append(S, IntV(sum))
  /\ e.error = NoError
  /\ e.ret = <<IntV(sum)>>

(* C5: on an interactive VM with stack S, input('set constant a'),         *)
(* input('set constant b'), input('add') leave the stack equal to S        *)
(* followed by a+b, and the last call returns a+b.                         *)
C5_SetSetAddLeavesSum ==
  (Len(log) >= 3
     /\ IsSetConstant(log[Len(log) - 2])
     /\ IsSetConstant(log[Len(log) - 1])
     /\ LastCall.op = "input" /\ LastCall.arg = L_add
     /\ log[Len(log) - 2].pre.interactive)
    => LeftSum(log[Len(log) - 2].pre.stack,
               DigitsToInt(log[Len(log) - 2].arg[3], 0)
                 + DigitsToInt(log[Len(log) - 1].arg[3], 0),
               LastCall)

(* C10: on an interactive VM, when input(text) returns,                    *)
(* has_more_instructions() and preview_next_instruction() answer as they   *)
(* did immediately before the call.                                        *)
C10_InputLeavesQueueAsBefore ==
  (log # <<>> /\ LastCall.op = "input" /\ LastCall.pre.interactive
     /\ LastCall.error = NoError)
    => /\ has_more_instructions(VM) = has_more_instructions(LastCall.pre)
       /\ preview_next_instruction(VM)
            = preview_next_instruction(LastCall.pre)

(***************************************************************************)
(* Properties of the writer                                                *)
(***************************************************************************)
(* the writer methods the round trip is stated for *)
RoundTripMethods ==
  {W_set, W_add, W_sub, W_mult, W_div, W_neg, W_move, W_alloc, W_push,
   W_pop, W_collect, W_exit}

(* parse returned one instruction per writer call, in the order called *)
OnePerCall(r, calls) ==
  /\ r.error = NoError
  /\ Len(r.instructions) = Len(calls)
  /\ \A i \in 1..Len(calls) : r.instructions[i].command = calls[i].method

(* C7: for k writer calls drawn from set/add/sub/mult/div/neg/move/alloc/  *)
(* push/pop/collect/exit, parsing the text the writer wrote yields exactly *)
(* k Instructions, the i-th with the command of the i-th call.             *)
C7_WriterRoundTrip ==
  (w_written /\ w_file = code /\ w_calls # <<>>
     /\ \A i \in 1..Len(w_calls) : w_calls[i].method \in RoundTripMethods)
    => OnePerCall(Parse(w_file, << >>), w_calls)

(***************************************************************************)
(* Properties of cast substitution                                         *)
(***************************************************************************)

(* the VM as input(line) leaves it before it calls next(); next() itself   *)
(* starts from the VM as it is                                             *)
Inserted(e) ==
  IF e.op = "input"
    THEN [e.pre EXCEPT !.instructions = <<LineText(e.arg) \o <<NL>>>> \o @]
    ELSE e.pre

(* the instruction the call `e` read, before any cast was substituted *)
Current(e) == ParseAll(Inserted(e)).vm.parsed[1]

(* no value of the Cast Table is itself a name of the Cast Table *)
NoCastOfCast(table) ==
  \A i, j \in 1..Len(table) : table[i].v # table[j].k

(* every parameter of `read` that is a name of `table`, other than the     *)
(* first parameter of set, is in `ran` the table's value for that name     *)
Substituted(read, ran, table) ==
  \A j \in 1..Len(table), i \in 1..Len(read.parameters) :
    (read.parameters[i] = table[j].k /\ ~(read.command = W_set /\ i = 1))
      => ran.parameters[i] = table[j].v

(* C11: once cast n v has executed, an executed instruction other than     *)
(* cast runs with every parameter equal to n replaced by the Cast Table's  *)
(* value of n, the first parameter of set alone exempt: a parameter equal  *)
(* to n at position 1 or later of set is replaced.                         *)
C11_CastSubstitutesParameters ==
  (/\ log # <<>>
   /\ LastCall.ran # <<>>
   /\ LastCall.ran[1].command # W_cast
   /\ NoCastOfCast(LastCall.pre.casts))
    => Substituted(Current(LastCall), LastCall.ran[1], LastCall.pre.casts)

(* the name a cast instruction gives is a reserved word *)
CastsReservedWord(instruction) ==
  /\ instruction.command = W_cast
  /\ Len(instruction.parameters) = 2
  /\ instruction.parameters[1].t \in {"kw", "cmd", "str"}
  /\ instruction.parameters[1].s
       \in CSNadiaLanguageCommand \cup CSNadiaLanguageKeyword

(* C12: executing a cast instruction parsed from text whose name is a      *)
(* reserved word adds no entry to the Cast Table and raises nothing.       *)
C12_CastOfReservedWordDropped ==
  (/\ log # <<>>
   /\ LastCall.ran # <<>>
   /\ CastsReservedWord(LastCall.ran[1]))
    => (LastCall.error = NoError /\ casts = LastCall.pre.casts)

(***************************************************************************)
(* Properties of the bindings                                              *)
(***************************************************************************)

(* C13: in every reachable state an alias of the bindings maps to the      *)
(* command it was first bound to: no call removes an alias or changes the  *)
(* command of an alias, whatever bind instructions name it afterwards.     *)
C13_FirstBindingWins ==
  log # <<>> =>
    \A a \in DOMAIN LastCall.pre.binds :
      a \in DOMAIN binds /\ binds[a] = LastCall.pre.binds[a]

(* the call `e` is input('bind a c') for a command c *)
IsBindInput(e) ==
  /\ e.op = "input"
  /\ e.pre.interactive
  /\ Len(e.arg) = 3
  /\ e.arg[1] = W_bind
  /\ e.arg[3] \in CSNadiaLanguageCommand

(* C14: input('bind a c') on an interactive VM where the alias a is bound  *)
(* does not raise and leaves the bindings as they were.                    *)
C14_RebindIsNoOp ==
  (/\ log # <<>>
   /\ IsBindInput(LastCall)
   /\ StrV(LastCall.arg[2]) \in DOMAIN LastCall.pre.binds)
    => (LastCall.error = NoError /\ binds = LastCall.pre.binds)

(* the call `e` read `instruction`, as parsed, and ran it *)
ReadAndRan(e, instruction) ==
  /\ ParseAll(Inserted(e)).error = NoError
  /\ ParseAll(Inserted(e)).vm.parsed # <<>>
  /\ Current(e) = instruction
  /\ e.ran # <<>>
  /\ e.ran[1].command = instruction.command

(* the instruction of the command `c` with the words after the first of    *)
(* `line` as its parameters                                                *)
AliasedInstruction(c, line) ==
  Instruction(c, [i \in 1..(Len(line) - 1) |-> TypedWord(line[i + 1])])

(* C15: after input('bind a c') has executed for an unbound identifier a,  *)
(* a later input line whose first token is a is parsed and executed as     *)
(* the command c with the line's remaining tokens as parameters.           *)
C15_AliasRunsItsCommand ==
  \A i \in 1..(Len(log) - 1) :
    (/\ IsBindInput(log[i])
     /\ log[i].error = NoError
     /\ StrV(log[i].arg[2]) \notin DOMAIN log[i].pre.binds
     /\ LastCall.op = "input"
     /\ LastCall.arg[1] = log[i].arg[2])
      => ReadAndRan(LastCall, AliasedInstruction(log[i].arg[3], LastCall.arg))

(***************************************************************************)
(* Properties of the arrays and the stack                                  *)
(***************************************************************************)

(* the call `e` ran exactly `instruction` and did not raise *)
RanOnly(e, instruction) ==
  e.error = NoError /\ e.ran = <<instruction>>

(* the calls a, b, c, d ran alloc x s, set constant v, push x i, pop x i *)
RanRoundTrip(a, b, c, d, x, s, v, i) ==
  /\ RanOnly(a, Instruction(W_alloc, <<x, IntV(s)>>))
  /\ RanOnly(b, Instruction(W_set, <<KwV(W_constant), v>>))
  /\ RanOnly(c, Instruction(W_push, <<x, IntV(i)>>))
  /\ RanOnly(d, Instruction(W_pop, <<x, IntV(i)>>))

(* array names, sizes, indexes and values of the instructions fed *)
ArrayNames == {StrV(W_x)}

ArraySizes == 1..2

ArrayValues == {IntV(5)}

ArrayIndexes == 0..1

(* C16: alloc x s, set constant v, push x i, pop x i, for s >= 1 and       *)
(* 0 <= i < s, leave the stack as it was after the set, v on top, and      *)
(* leave every slot of x None.                                             *)
C16_PushPopRoundTrip ==
  Len(log) >= 4 =>
    \A x \in ArrayNames, s \in ArraySizes, v \in ArrayValues,
       i \in ArrayIndexes :
      (/\ i < s
       /\ RanRoundTrip(log[Len(log) - 3], log[Len(log) - 2],
                       log[Len(log) - 1], LastCall, x, s, v, i))
        => /\ stack = log[Len(log) - 1].pre.stack
           /\ Top(stack) = v
           /\ namespace[x] = [k \in 1..s |-> NoneV]

(* the four instructions ran, one after the other *)
C16_Witness ==
  /\ Len(log) >= 4
  /\ \E x \in ArrayNames, s \in ArraySizes, v \in ArrayValues, i \in ArrayIndexes :
       /\ i < s
       /\ RanRoundTrip(log[Len(log) - 3], log[Len(log) - 2],
                       log[Len(log) - 1], LastCall, x, s, v, i)

(* the call `e` ran push or pop on the array x with an index past its end *)
PastTheEnd(e, command) ==
  /\ e.ran # <<>>
  /\ e.ran[1].command = command
  /\ Len(e.ran[1].parameters) = 2
  /\ e.ran[1].parameters[1] \in DOMAIN e.pre.namespace
  /\ e.ran[1].parameters[2].t = "int"
  /\ e.ran[1].parameters[2].n >= Len(e.pre.namespace[e.ran[1].parameters[1]])

C18_RaisingNextChangesNothing ==
  (/\ log # <<>>
   /\ LastCall.op \in {"next", "input"}
   /\ LastCall.error \notin {NoError, NonTermination})
    => Effect(VM) = Effect(LastCall.pre)

(***************************************************************************)
(* Properties of clear() and of the parser's errors                        *)
(***************************************************************************)

(* C19: clear() empties the pending instructions, has_more_instructions()  *)
(* is false and preview_next_instruction() is None after it, and leaves    *)
(* the stack, the arrays, the casts, the bindings and the position as      *)
(* they were.                                                              *)
C19_ClearEmptiesQueueOnly ==
  (log # <<>> /\ LastCall.op = "clear")
    => /\ ~has_more_instructions(VM)
       /\ preview_next_instruction(VM) = <<>>
       /\ Effect(VM) = Effect(LastCall.pre)

(* clear() was called with instructions pending and a value on the stack *)
C19_Witness ==
  /\ log # <<>>
  /\ LastCall.op = "clear"
  /\ has_more_instructions(LastCall.pre)
  /\ LastCall.pre.stack # <<>>

(* a line that is a comment *)
IsCommentLine(line) == line[1][1] = ";"

(* the k-th line is the first that is not a comment, and its first token   *)
(* is neither an alias nor a command                                       *)
FirstTokenUnknown(lines, bindings, k) ==
  /\ \A j \in 1..(k - 1) : IsCommentLine(lines[j])
  /\ ~IsCommentLine(lines[k])
  /\ ~IsLead(lines[k][1], bindings)

(* C20: for a source whose first token that is not a comment is neither    *)
(* an alias nor a command (an unknown identifier, a number, a string, or   *)
(* constant, origin or player), parse raises the parse error and returns   *)
(* no instructions.                                                        *)
C20_UnknownLeadRaisesParseError ==
  (/\ p_phase \in {"done", "open"}
   /\ \E k \in 1..Len(p_lines) : FirstTokenUnknown(p_lines, p_bindings, k))
    => (p_result.error = ParseError /\ p_result.instructions = <<>>)

(***************************************************************************)
(* Properties of the parser: bind targets                                  *)
(***************************************************************************)

(* a bind line whose target is missing or is not a command *)
MalformedBind(line) ==
  /\ line[1] = W_bind
  /\ Len(line) < 3 \/ line[3] \notin CSNadiaLanguageCommand

(* C21: parse raises the parse error for a bind instruction whose target   *)
(* is missing or is not a command name (bind var notacommand, bind var),   *)
(* and returns no BIND Instruction for it.                                 *)
C21_MalformedBindRaisesParseError ==
  (p_phase = "done" /\ MalformedBind(p_lines[1]))
    => (p_result.error = ParseError /\ p_result.instructions = <<>>)

(***************************************************************************)
(* Properties of the tokenizer                                             *)
(***************************************************************************)

(* the contents of the tokens, in order *)
Contents(tokens) == [i \in 1..Len(tokens) |-> tokens[i].contents]

RECURSIVE Words(_)
(* the words of the lines, in order *)
Words(lines) ==
  IF lines = <<>> THEN <<>> ELSE Head(lines) \o Words(Tail(lines))

(* every word of every line is made of letters *)
LetterLines(lines) ==
  \A i \in 1..Len(lines) : \A j \in 1..Len(lines[i]) :
    \A k \in 1..Len(lines[i][j]) : lines[i][j][k] \in ascii_letters

(* C22: when the stream ends while a token is in progress (collect, or     *)
(* move player east, without a final newline) the tokenizer still emits    *)
(* that token: no consumed character is lost, so the tokens of a source    *)
(* of letter words are its words.                                          *)
C22_EndOfStreamEmitsToken ==
  (p_phase = "open" /\ LetterLines(p_lines))
    => Contents(Tokenize(OpenText(p_lines))) = Words(p_lines)

(* the word is k digits followed by a letter *)
DigitsThenLetter(word, k) ==
  /\ k < Len(word)
  /\ \A i \in 1..k : word[i] \in digits
  /\ word[k + 1] \in ascii_letters

(* the tokens begin with the Number of the first k characters of `word`,   *)
(* and the next token begins with the character after them                 *)
NumberThenRest(tokens, word, k) ==
  /\ Len(tokens) >= 2
  /\ tokens[1] = Token("number", SubSeq(word, 1, k))
  /\ tokens[2].contents[1] = word[k + 1]

(* C30: the first non-digit character that ends a Number token is pushed   *)
(* back and begins the next token: 5abc followed by a newline gives the    *)
(* Number 5 and then a token that starts with a.                           *)
C30_NumberTerminatorPushedBack ==
  p_phase = "done" =>
    \A k \in 1..Len(p_lines[1][1]) :
      DigitsThenLetter(p_lines[1][1], k)
        => NumberThenRest(Tokenize(ProgramText(p_lines)), p_lines[1][1], k)

(***************************************************************************)
(* Properties of the parser: what follows a bind                           *)
(***************************************************************************)

(* bind a c for a word a that is neither an alias nor a command and a      *)
(* command c                                                               *)
WellFormedBind(line, bindings) ==
  /\ Len(line) = 3
  /\ line[1] = W_bind
  /\ ~IsLead(line[2], bindings)
  /\ line[3] \in CSNadiaLanguageCommand

(* C29: after bind name target the parser resumes at the next token: the   *)
(* bind Instruction has the two parameters [name, target], and the command *)
(* line that follows the bind is parsed as an Instruction of its own.      *)
C29_ParserResumesAfterBind ==
  (/\ p_phase = "done"
   /\ Len(p_lines) = 2
   /\ WellFormedBind(p_lines[1], p_bindings)
   /\ CommandLine(p_lines[2], p_bindings))
    => /\ p_result.error = NoError
       /\ Len(p_result.instructions) = 2
       /\ p_result.instructions[1]
            = Instruction(W_bind, <<StrV(p_lines[1][2]), CmdV(p_lines[1][3])>>)
       /\ p_result.instructions[2].command
            = LeadCommand(p_lines[2][1], p_bindings)

(***************************************************************************)
(* Properties of the writer's lines                                        *)
(***************************************************************************)

RECURSIVE FirstWord(_)
(* the characters of a line before its first space *)
FirstWord(line) ==
  IF line = <<>> \/ Head(line) = SP THEN <<>>
  ELSE <<Head(line)>> \o FirstWord(Tail(line))

(* C23: every writer method appends exactly one line in the shape the      *)
(* format table gives for its own command; cast(name, value) appends the   *)
(* line cast <name> <value>.                                               *)
C23_WriterLineOfOwnCommand ==
  /\ Len(SplitLines(code, <<>>)) = Len(w_calls)
  /\ \A i \in 1..Len(w_calls) :
       FirstWord(SplitLines(code, <<>>)[i]) = w_calls[i].method

(***************************************************************************)
(* Properties of set with a target that is not constant                    *)
(***************************************************************************)

(* C24: executing set t v where t is not the constant keyword, also when   *)
(* t is a name of the Cast Table, is a no-op: the stack, the Cast Table,   *)
(* the arrays, the bindings and the position are unchanged.                *)
C24_SetOfNonConstantIsNoOp ==
  (/\ log # <<>>
   /\ LastCall.ran # <<>>
   /\ LastCall.ran[1].command = W_set
   /\ Len(LastCall.ran[1].parameters) = 2
   /\ LastCall.ran[1].parameters[1] # KwV(W_constant))
    => (LastCall.error = NoError /\ Effect(VM) = Effect(LastCall.pre))

(***************************************************************************)
(* Properties of the parser: the commands of the Instructions              *)
(***************************************************************************)

(* C27: every Instruction parse returns, for any source and any valid seed *)
(* bindings, has a command of the closed Command set; constant, origin and *)
(* player are never the command of an Instruction.                         *)
C27_InstructionCommandsAreCommands ==
  \A i \in 1..Len(p_result.instructions) :
    p_result.instructions[i].command \in CSNadiaLanguageCommand

(* parse returned an Instruction that has constant among its parameters    *)
(* and one whose command came from a seed binding                          *)
C27_Witness ==
  /\ p_phase = "done"
  /\ p_result.error = NoError
  /\ p_bindings # << >>
  /\ p_lines[1][1] = W_var
  /\ p_result.instructions # <<>>
  /\ p_result.instructions[1].command = W_set
  /\ KwV(W_constant) \in
       {p_result.instructions[1].parameters[k] :
          k \in 1..Len(p_result.instructions[1].parameters)}

(***************************************************************************)
(* Properties of the dispatch                                              *)
(***************************************************************************)

Cells(grid) ==
  {rc \in UNION {{<<row - 1, column - 1>> : column \in 1..Len(grid[row])} :
                   row \in 1..Len(grid)} :
     grid[rc[1] + 1][rc[2] + 1] # None}

(* C28: as_list() returns the coordinates of every cell of the grid whose
   item is not None, each once, the cells of the last row and of the last
   column included; the wall grid of the 3x5 test world gives 12 *)
C28_AsListCoversEveryCell ==
  g_phase = "listed" =>
    /\ {g_list[i] : i \in 1..Len(g_list)} = Cells(g_grid)
    /\ Len(g_list) = Cardinality(Cells(g_grid))
    /\ (g_data = CSWorldDataGenerator(DUMMY_DATA)
        /\ g_grid = CSGridInit(g_data, "WALL") => Len(g_list) = 12)


(***************************************************************************)
(* Properties of the player position                                       *)
(***************************************************************************)
PairOfIntegers(position) ==
  /\ Len(position) = 2
  /\ position[1].t = "int"
  /\ position[2].t = "int"

RanMove(e) == \E i \in 1..Len(e.ran) : e.ran[i].command = W_move

(* C25: in every reachable state get_position() is a pair of integers, and *)
(* a call that executed no move instruction leaves it as it was, whatever  *)
(* the parameters of the instruction and the contents of the Cast Table.   *)
C25_PositionChangesOnlyByMove ==
  /\ PairOfIntegers(get_position(VM))
  /\ (log # <<>> /\ ~RanMove(LastCall))
       => get_position(VM) = get_position(LastCall.pre)


(***************************************************************************)
(* Comments and blank lines                                                *)
(***************************************************************************)
(* the lines that are not comment lines *)
WithoutComments(lines) ==
  LET kept(line) == ~IsCommentLine(line) IN SelectSeq(lines, kept)

(* C31: parsing a program that has comment lines gives the instructions    *)
(* (commands and parameters) of the program with those lines removed, also *)
(* when a comment line follows a command line.                             *)
C31_CommentLinesAreSkipped ==
  p_phase = "done"
    => p_result = Parse(ProgramText(WithoutComments(p_lines)), p_bindings)


(* the lines that are not blank *)
WithoutBlanks(lines) ==
  LET kept(line) == line # L_blank IN SelectSeq(lines, kept)

(* C32: right after construction, a VM constructed from a program text     *)
(* with blank lines has the pending instructions of a VM constructed from  *)
(* the text with the blank lines removed.                                  *)
C32_BlankLinesAreIgnored ==
  (has_path /\ log = <<>>)
    => /\ VmInit(TRUE, ProgramText(WithoutBlanks(program)), <<0, 0>>,
                 FALSE).error = NoError
       /\ parsed_instructions
            = VmInit(TRUE, ProgramText(WithoutBlanks(program)), <<0, 0>>,
                     FALSE).vm.parsed


(***************************************************************************)
(* Properties of the arithmetic                                            *)
(***************************************************************************)
(* the stack has the integers a and b on top, b above a *)
TopTwoIntegers(s) ==
  /\ Len(s) >= 2
  /\ s[Len(s)].t = "int"
  /\ s[Len(s) - 1].t = "int"

(* x OP y for the integers x and y *)
Computed(op, x, y) ==
  IF op = W_add THEN x + y ELSE IF op = W_sub THEN x - y ELSE x * y

(* the call `e` ran one instruction, of the command `op` *)
RanCommand(e, op) == Len(e.ran) = 1 /\ e.ran[1].command = op

(* C33: with a and b on top of the stack (b on top, both integers), add,   *)
(* sub and mult pop the two and push one: x = b, y = a, and the result is  *)
(* x + y, x - y (b - a) and x * y; neg replaces the top b by -b and leaves *)
(* the depth of the stack as it was.                                       *)
C33_ArithmeticPopsTwoPushesOne ==
  log # <<>> =>
    /\ \A op \in {W_add, W_sub, W_mult} :
         (RanCommand(LastCall, op) /\ TopTwoIntegers(LastCall.pre.stack))
           => /\ LastCall.error = NoError
              /\ stack = Append(Pop(Pop(LastCall.pre.stack)),
                                IntV(Computed(op,
                                       Top(LastCall.pre.stack).n,
                                       Top(Pop(LastCall.pre.stack)).n)))
    /\ (/\ RanCommand(LastCall, W_neg)
        /\ LastCall.pre.stack # <<>>
        /\ Top(LastCall.pre.stack).t = "int")
         => /\ LastCall.error = NoError
            /\ stack = Append(Pop(LastCall.pre.stack),
                              IntV(0 - Top(LastCall.pre.stack).n))

(* sub ran with two different integers on top of the stack *)
C33_Witness ==
  /\ log # <<>>
  /\ RanCommand(LastCall, W_sub)
  /\ LastCall.error = NoError
  /\ TopTwoIntegers(LastCall.pre.stack)
  /\ Top(LastCall.pre.stack) # Top(Pop(LastCall.pre.stack))


(***************************************************************************)
(* Properties of the tokenizer                                             *)
(***************************************************************************)
(* a step in which a call of _next_token starts a token *)
StartsToken == t_state = "between" /\ t_state' \notin {"between", "returned"}

(* C34: tokenize() terminates on every finite stream and leaves the stream *)
(* empty; no tokenize error is raised and the state machine of a token     *)
(* never is in the ERROR state; a call that starts a token takes at least  *)
(* one character.                                                          *)
C34_TokenizeTerminates ==
  /\ [](t_state # "error" /\ ~t_raised)
  /\ <>(t_state = "returned" /\ t_stream = <<>>)
  /\ [][StartsToken => Len(t_stream') < Len(t_stream)]_vars

(* tokenize() returned from a stream that began with a character outside   *)
(* the comment, string, number and identifier classes                      *)
C34_Witness ==
  /\ t_state = "returned"
  /\ Len(t_input) = MaxStreamLen
  /\ StartType(t_input[1]) = "any"


(***************************************************************************)
(* Properties of the writer builder                                        *)
(***************************************************************************)
PopLine == Chars("pop ") \o W_x \o <<SP>> \o W_0 \o <<NL>>
PushLine == Chars("push ") \o W_x \o <<SP>> \o W_0 \o <<NL>>
CollectLine == Chars("collect") \o <<NL>>

(* the list ends with the instructions of pop, push and collect *)
EndsWithCollectGroup(list) ==
  /\ Len(list) >= 3
  /\ list[Len(list)] = CollectLine
  /\ list[Len(list) - 1] = PushLine
  /\ list[Len(list) - 2] = PopLine

(* the list of the builder of the last call, before the call *)
UndoneList == b_last.pre[b_last.builder]

(* C35: undo(ignore_collect=False) on a list that ends with the collect    *)
(* instruction and the pop and push instructions before it removes the     *)
(* three; undo() with ignore_collect true removes the last instruction     *)
(* only; undo on an empty list changes nothing.                            *)
C35_UndoRemovesCollectGroup ==
  b_last.method = "undo" =>
    /\ UndoneList = <<>> => BuilderInstructions(b_last.builder) = <<>>
    /\ (UndoneList # <<>> /\ b_last.arg)
         => BuilderInstructions(b_last.builder)
              = SubSeq(UndoneList, 1, Len(UndoneList) - 1)
    /\ (~b_last.arg /\ EndsWithCollectGroup(UndoneList))
         => BuilderInstructions(b_last.builder)
              = SubSeq(UndoneList, 1, Len(UndoneList) - 3)

(* C39: a call on one builder leaves the list of every other builder as it *)
(* was, and a newly constructed builder has an empty list.                 *)
C39_BuildersAreIndependent ==
  /\ b_last.method = "__init__"
       => BuilderInstructions(b_last.builder) = <<>>
  /\ b_last.method \notin {"none", "__init__"}
       => \A other \in b_built \ {b_last.builder} :
            BuilderInstructions(other) = b_last.pre[other]


(***************************************************************************)
(* Properties of the interactive flag                                      *)
(***************************************************************************)
(* C36: a VM constructed with interactive=False stays non-interactive:     *)
(* after any next() calls over any program, alloc instructions with any    *)
(* array name included, the flag is false, and input() returns nothing and *)
(* changes nothing.  Every VM of SpecFlag is constructed with              *)
(* interactive=False.                                                      *)
C36_StaysNonInteractive ==
  /\ ~is_interactive
  /\ (log # <<>> /\ LastCall.op = "input")
       => /\ LastCall.error = NoError
          /\ LastCall.ret = <<>>
          /\ VM = LastCall.pre


(***************************************************************************)
(* Termination of next()                                                   *)
(***************************************************************************)
(* C37: every next() call returns or raises, whatever the pending          *)
(* instruction and whatever Cast Table the executed cast instructions have *)
(* built, a name cast to itself and names cast to each other included: the *)
(* cast loop of next() always finishes.  A call whose cast loop never ends *)
(* is logged with the error NonTermination.                                *)
C37_NextTerminates ==
  \A i \in 1..Len(log) : log[i].error # NonTermination


(***************************************************************************)
(* Properties of input() after a call that raised                          *)
(***************************************************************************)
(* the last two calls were input() calls on an interactive VM, and the     *)
(* first of them raised                                                    *)
InputAfterFailedInput ==
  /\ Len(log) >= 2
  /\ log[Len(log) - 1].op = "input"
  /\ log[Len(log) - 1].pre.interactive
  /\ log[Len(log) - 1].error \notin {NoError, NonTermination}
  /\ LastCall.op = "input"

(* the same input() made on the VM as it was before the call that raised *)
WithoutFailedInput == VmInput(log[Len(log) - 1].pre, LineText(LastCall.arg))

(* C38: on an interactive VM, an input() call that raised does not         *)
(* influence the input(text) that follows it: that call has the effect on  *)
(* stack, arrays, casts, bindings and position, the return value and the   *)
(* error it would have had if the failed call had never been made.         *)
C38_FailedInputLeavesNoTrace ==
  InputAfterFailedInput
    => /\ Effect(VM) = Effect(WithoutFailedInput.vm)
       /\ LastCall.ret = WithoutFailedInput.ret
       /\ LastCall.error = WithoutFailedInput.error


(***************************************************************************)
(* Properties of command resolution                                        *)
(***************************************************************************)
(* an input() call on an interactive VM whose line begins with a command *)
KeywordLed(e) ==
  /\ e.op = "input"
  /\ e.pre.interactive
  /\ e.arg # <<>>
  /\ e.arg[1] \in CSNadiaLanguageCommand

(* C40: in an interactive VM a reserved command keyword resolves to        *)
(* itself: after any bind and cast instructions executed through input(),  *)
(* an input line whose leading token is the command keyword k executes an  *)
(* instruction of command k, never of another command.                     *)
C40_KeywordResolvesToItself ==
  (log # <<>> /\ KeywordLed(LastCall))
    => /\ LastCall.ran # <<>>
       /\ LastCall.ran[1].command = LastCall.arg[1]

====
